---- MODULE Spec2Model ----
(***************************************************************************)
(* OpenClass realtime pipeline: the event bus (openclass/events.py), the   *)
(* audio capture source (openclass/audio.py), the transcription stream    *)
(* client (openclass/speech.py) and the analysis engine                    *)
(* (openclass/ai_engine.py).                                               *)
(*                                                                         *)
(* Specifications:                                                         *)
(*   Spec         the event bus: subscribe / subscribe_all / unsubscribe / *)
(*                publish with its handler tasks / get_history             *)
(*   SpecHistory  the event bus publishing past its history capacity       *)
(*   SpecQuery    get_history() over short histories of either kind        *)
(*   SpecUnsub    the event bus with unsubscribe                           *)
(*   SpecAudio    the capture source: start(), stop(), the capture threads *)
(*   SpecQueue    one capture session filling the channel past capacity    *)
(*   SpecRead     read_audio() over a capture session that is stopped      *)
(*   SpecStream   the stream client under any sequence of calls            *)
(*   SpecCreate   task creation with every response, then start_streaming  *)
(*   SpecSession  one session with overlapping stop_streaming() calls      *)
(*   SpecSend     one session with send_audio()                            *)
(*   SpecReceive  the receive loop over every kind of inbound message      *)
(*   SpecDetect   question detection over sentences and backend replies    *)
(*   SpecRecur    question detection over a window that comes back         *)
(*   SpecEndToEnd twelve sentences in a row, then one detection            *)
(*   SpecGate     one wake-up of the periodic loop from any engine state   *)
(*   SpecPeriodic the periodic loop with stop()                            *)
(*   SpecGenerate summary, suggestion and ideas with every backend reply   *)
(*   SpecParse    _parse_json_response over every short text               *)
(*   SpecOverlap  detection runs and generations in flight at once         *)
(*   SpecRestart  the engine on the bus under any start() / stop() calls   *)
(*   SpecPublish  the engine on the bus, the backend may never answer      *)
(*   SpecWired    the engine on the bus with handlers of its own events    *)
(*   SpecSnapshot the event bus with registry changes during a publish     *)
(***************************************************************************)
EXTENDS Integers, Sequences, FiniteSets, TLC

(* ------------------------------ bounds ------------------------------- *)
MaxPublish == 1
MaxReg == 2
MaxUnsub == 1
MaxQuery == 1
MaxLimit == 3
MaxEvents == 3
MaxExtra == 3
MaxStarts == 2
MaxStops == 2
MaxFrames == 1
MaxPending == 2
MaxReads == 1
MaxOverflow == 3
MaxLate == 1
MaxCreate == 2
MaxConnect == 2
MaxSend == 2
MaxDisconnect == 2
MaxInbound == 1
MaxMessages == 2
MaxSentences == 3
MaxRepeat == 2
MaxBoundary == 12
MaxWakes == 3
MaxIdeas == 1
MaxTextLen == 4

(* ------------------------- program constants ------------------------- *)
MAX_HISTORY == 1000
QUEUE_MAXSIZE == 500
WINDOW == 5
MIN_CONFIDENCE == 70
SLEEP_SECONDS == 30
SUGGEST_INTERVAL == 300
SUMMARY_MIN_SENTENCES == 5
SUGGEST_MIN_SENTENCES == 10
SUMMARY_WINDOW == 50
SUGGEST_WINDOW == 30
IDEAS_WINDOW == 60
Epoch == 1000

None == "None"
EventType == {"TRANSCRIPTION_SENTENCE_END", "QUESTION_DETECTED"}
HandlerIds == {"h1", "h2"}

VARIABLES
    handlers,          \* EventBus._handlers: kind -> list of handlers (a dict: absent keys)
    global_handlers,   \* EventBus._global_handlers
    event_history,     \* EventBus._event_history
    pubs,              \* the publish() calls in progress and those finished since the last call
    detached,          \* ids of the events one of whose handlers spawned a task still running
    npublished,        \* number of publish() calls so far (an event's id is its number)
    nreg,              \* number of subscribe / subscribe_all calls so far
    unsub_log,         \* the unsubscribe calls so far
    history_result,    \* arguments and result of the last get_history() call
    \* AudioCapture
    audio_running,     \* AudioCapture._running
    pa,                \* AudioCapture._pa: None or the PyAudio instance
    stream,            \* AudioCapture._stream: None or the input stream
    capture_thread,    \* AudioCapture._capture_thread: None or the last thread started
    threads,           \* the capture threads started so far: where each one is
    pa_open,           \* the PyAudio instances created and not yet terminated
    stream_open,       \* the input streams opened and not yet closed
    produced,          \* number of frames the device has delivered
    pending,           \* frames handed to call_soon_threadsafe, _enqueue not yet run
    audio_queue,       \* AudioCapture._audio_queue
    nread,             \* number of frames read_audio() has taken from the queue
    starts,            \* number of start() calls so far
    stops,             \* number of stop() calls so far
    stop_pc,           \* where the stop() call in progress is ("idle": none)
    stopped,           \* stop() has returned and start() was not called since
    \* AudioCapture.read_audio(): one generator and the task iterating it
    reader_pc,         \* where the generator is ("none": not called yet)
    read_frame,        \* the frame it yielded last (0: none yet)
    read_stopped,      \* number of frames it yielded while _running was False
    \* TingwuClient
    task_id,           \* TingwuClient.task_id (NoHandle: None)
    meeting_join_url,  \* TingwuClient.meeting_join_url (NoHandle: None)
    ws,                \* TingwuClient._ws: NoHandle or the connection
    client_running,    \* TingwuClient._running
    receive_task,      \* TingwuClient._receive_task: NoHandle or the last task created
    conns,             \* the websocket connections opened so far
    rx,                \* the _receive_loop tasks created so far
    tw_events,         \* the events the client has published, in order
    create_pc,         \* where the create call in progress is ("idle": none)
    create_resp,       \* the response the last create call got from the remote API
    start_pc,          \* where the start_streaming() call in progress is
    dcalls,            \* the stop_streaming() calls that found a running connection
    ncalls,            \* number of calls made so far, per operation
    last_op,           \* the last call that ended at once or returned, and how
    \* AIEngine
    config,            \* AIEngine.config.classroom: the switches and the summary interval
    sentence_buffer,   \* AIEngine._sentence_buffer
    ai_running,        \* AIEngine._running
    periodic_pc,       \* where the _periodic_loop task is ("none": no task created)
    det_waiting,       \* number of _detect_question tasks created and waiting for the lock
    det,               \* the _detect_question task that holds _analysis_lock
    last_transcript,   \* AIEngine._last_transcript_for_detection (<<>>: not set, or '')
    last_detected_question, \* AIEngine._last_detected_question
    gen_tasks,         \* the summary / suggestion / idea generations started so far
    now,               \* what time.time() returns
    last_summary_time, \* AIEngine._last_summary_time
    last_suggest_time, \* AIEngine._last_suggest_time
    ai_events,         \* the events the engine has published, in order
    det_log,           \* the detection runs finished, in order: window, call, reply, outcome
    launches,          \* the gates fired so far: which one and the clock reading
    ai_stop_pc,        \* where the AIEngine.stop() call is ("idle": none since start())
    ai_calls,          \* number of calls made so far, per operation
    \* AIEngine._parse_json_response
    parse_text,        \* the text handed to the last call
    parse_result,      \* what the last call returned
    \* the engine on the bus
    ev_text,           \* the sentence events published: event id -> its text, whether
                       \* stop() had returned (and start() not been called since), and
                       \* where the detection run inside the lock was
    old_loops          \* the _periodic_loop tasks _periodic_task no longer refers to

busVars == <<handlers, global_handlers, event_history, pubs, detached, npublished,
             nreg, unsub_log, history_result>>
audioVars == <<audio_running, pa, stream, capture_thread, threads, pa_open,
               stream_open, produced, pending, audio_queue, nread, starts, stops,
               stop_pc, stopped>>
readerVars == <<reader_pc, read_frame, read_stopped>>
clientVars == <<task_id, meeting_join_url, ws, client_running, receive_task, conns,
                rx, tw_events, create_pc, create_resp, start_pc, dcalls, ncalls,
                last_op>>
aiVars == <<config, sentence_buffer, ai_running, periodic_pc, det_waiting, det,
            last_transcript, last_detected_question, gen_tasks, now,
            last_summary_time, last_suggest_time, ai_events, det_log, launches,
            ai_stop_pc, ai_calls>>
parseVars == <<parse_text, parse_result>>
wireVars == <<ev_text, old_loops>>
nonBusVars == <<audioVars, readerVars, clientVars, aiVars, parseVars, wireVars>>
nonAudioVars == <<busVars, readerVars, clientVars, aiVars, parseVars, wireVars>>
nonReaderVars == <<busVars, clientVars, aiVars, parseVars, wireVars>>
nonClientVars == <<busVars, audioVars, readerVars, aiVars, parseVars, wireVars>>
nonAIVars == <<busVars, audioVars, readerVars, clientVars, parseVars, wireVars>>
nonParseVars == <<busVars, audioVars, readerVars, clientVars, aiVars, wireVars>>
vars == <<busVars, audioVars, readerVars, clientVars, aiVars, parseVars, wireVars>>

(* --------------------------- Python helpers -------------------------- *)
Min(a, b) == IF a < b THEN a ELSE b
Max(a, b) == IF a > b THEN a ELSE b

\* seq[start:] with Python's handling of negative and out-of-range starts
PySliceFrom(seq, start) ==
    LET n == Len(seq)
        s == IF start < 0 THEN Max(n + start, 0) ELSE Min(start, n)
    IN SubSeq(seq, s + 1, n)

\* [e for e in seq if e.type == kind]
FilterType(seq, kind) == SelectSeq(seq, LAMBDA e : e.type = kind)

\* number of entries of handler h in a handler list
CountOf(list, h) == Len(SelectSeq(list, LAMBDA e : e.h = h))

(* ------------------------------ EventBus ----------------------------- *)
\* self._handlers.get(event.type, [])
KindHandlers(k) == IF k \in DOMAIN handlers THEN handlers[k] ELSE <<>>

\* publish: handlers = self._handlers.get(event.type, []) + self._global_handlers
MatchingGlobalFirst(k) == global_handlers \o KindHandlers(k)
MatchingKindOnly(k) == KindHandlers(k)
MatchingHandlers(k) == KindHandlers(k) \o global_handlers

\* publish: append, then keep the last _max_history events
AppendedLater(hist) == SubSeq(hist, 1, Len(hist) - 1)
TrimKeepFirst(hist) == IF Len(hist) > MAX_HISTORY THEN SubSeq(hist, 1, MAX_HISTORY) ELSE hist
TrimHistory(hist) == IF Len(hist) > MAX_HISTORY THEN PySliceFrom(hist, -MAX_HISTORY) ELSE hist

\* unsubscribe: [h for h in self._handlers[event_type] if h != handler]
RemoveFirstOnly(list, h) ==
    IF \E i \in 1..Len(list) : list[i].h = h
    THEN LET i == CHOOSE i \in 1..Len(list) :
                      list[i].h = h /\ \A j \in 1..(i - 1) : list[j].h # h
         IN SubSeq(list, 1, i - 1) \o SubSeq(list, i + 1, Len(list))
    ELSE list
RemoveHandler(list, h) == SelectSeq(list, LAMBDA e : e.h # h)

\* _safe_call: try: await handler(event) / except Exception: log
\* outcome of the handler -> how the wrapping task ends
SafeCallNoCatch(outcome) == IF outcome = "ok" THEN "ok" ELSE "escaped"
SafeCall(outcome) ==
    CASE outcome = "ok" -> "ok"
      [] outcome = "error" -> "caught"       \* an Exception: caught and logged
      [] outcome = "cancel" -> "escaped"     \* a BaseException (CancelledError) is not caught

Finished == {"ok", "caught", "escaped"}

\* await asyncio.gather(*tasks): done once every task is done
GatherAnyDone(tasks) == \E i \in 1..Len(tasks) : tasks[i].st \in Finished
GatherDone(tasks) == \A i \in 1..Len(tasks) : tasks[i].st \in Finished

\* gather() schedules the tasks in list order and the loop's ready queue is FIFO:
\* task i takes its first step after the tasks before it took theirs
StartAnyOrder(tasks, i) == tasks[i].st = "pending"
MayStart(tasks, i) ==
    /\ tasks[i].st = "pending"
    /\ \A j \in 1..(i - 1) : tasks[j].st # "pending"

\* get_history: history[-limit:] of the (optionally filtered) history
GetHistory(kind, limit) ==
    LET history == IF kind # None THEN FilterType(event_history, kind) ELSE event_history
    IN PySliceFrom(history, -limit)

\* subscribe: self._handlers.setdefault(event_type, []).append(handler); reg is
\* the number of the registration
WithHandler(hs, k, h, reg) ==
    LET e == [h |-> h, reg |-> reg, via |-> "kind"]
    IN IF k \in DOMAIN hs THEN [hs EXCEPT ![k] = Append(@, e)] ELSE (k :> <<e>>) @@ hs

Subscribe(k, h) ==
    /\ nreg < MaxReg
    /\ handlers' = WithHandler(handlers, k, h, nreg + 1)
    /\ nreg' = nreg + 1
    /\ unsub_log' = [i \in 1..Len(unsub_log) |->
                        IF unsub_log[i].k = k /\ unsub_log[i].h = h
                        THEN [unsub_log[i] EXCEPT !.active = FALSE]
                        ELSE unsub_log[i]]
    /\ UNCHANGED <<global_handlers, event_history, pubs, detached, npublished,
                   history_result>>
    /\ UNCHANGED nonBusVars

SubscribeAll(h) ==
    /\ nreg < MaxReg
    /\ global_handlers' = Append(global_handlers,
                                 [h |-> h, reg |-> nreg + 1, via |-> "global"])
    /\ nreg' = nreg + 1
    /\ UNCHANGED <<handlers, event_history, pubs, detached, npublished, unsub_log,
                   history_result>>
    /\ UNCHANGED nonBusVars

Unsubscribe(k, h) ==
    /\ Len(unsub_log) < MaxUnsub
    /\ handlers' = IF k \in DOMAIN handlers
                   THEN [handlers EXCEPT ![k] = RemoveHandler(@, h)]
                   ELSE handlers
    /\ unsub_log' = Append(unsub_log, [k |-> k, h |-> h, active |-> TRUE,
                                      removed |-> CountOf(KindHandlers(k), h)])
    /\ UNCHANGED <<global_handlers, event_history, pubs, detached, npublished, nreg,
                   history_result>>
    /\ UNCHANGED nonBusVars

\* publish(event) up to its await: the history append and trim, the list of
\* handlers, the early return when there is none, the tasks handed to gather
\* (the records of the calls that had finished before are dropped)
BusPublish(k) ==
    LET ev == [type |-> k, id |-> npublished + 1]
        hs == MatchingHandlers(k)
        tasks == [i \in 1..Len(hs) |->
                     [h |-> hs[i].h, reg |-> hs[i].reg, via |-> hs[i].via,
                      st |-> "pending"]]
    IN /\ event_history' = TrimHistory(Append(event_history, ev))
       /\ npublished' = npublished + 1
       /\ pubs' = Append(SelectSeq(pubs, LAMBDA r : r.state = "awaiting"),
                    [ev |-> ev,
                     tasks |-> tasks,
                     state |-> IF Len(hs) = 0 THEN "returned" ELSE "awaiting",
                     order |-> <<>>,
                     regKind |-> KindHandlers(k),
                     regGlobal |-> global_handlers,
                     unsubAt |-> {<<u.k, u.h>> : u \in
                                    {unsub_log[i] : i \in {j \in 1..Len(unsub_log) :
                                                             unsub_log[j].active}}}])
       /\ UNCHANGED <<handlers, global_handlers, detached, nreg, unsub_log,
                      history_result>>

Publish(k) == BusPublish(k) /\ UNCHANGED nonBusVars

\* first step of _safe_call(handler, event): the handler runs until it returns,
\* raises or suspends; it may spawn a detached task (asyncio.create_task)
BusHandlerStart(p, i, beh, spawn) ==
    /\ MayStart(pubs[p].tasks, i)
    /\ spawn => pubs[p].ev.id \notin detached
    /\ pubs' = [pubs EXCEPT ![p].tasks[i].st =
                                IF beh = "suspend" THEN "suspended" ELSE SafeCall(beh),
                            ![p].order = Append(@, i)]
    /\ detached' = IF spawn THEN detached \cup {pubs[p].ev.id} ELSE detached
    /\ UNCHANGED <<handlers, global_handlers, event_history, npublished, nreg,
                   unsub_log, history_result>>

HandlerStart(p, i, beh, spawn) == BusHandlerStart(p, i, beh, spawn) /\ UNCHANGED nonBusVars

\* a suspended handler is resumed and runs to its end
HandlerResume(p, i, out) ==
    /\ pubs[p].tasks[i].st = "suspended"
    /\ pubs' = [pubs EXCEPT ![p].tasks[i].st = SafeCall(out)]
    /\ UNCHANGED <<handlers, global_handlers, event_history, detached, npublished,
                   nreg, unsub_log, history_result>>
    /\ UNCHANGED nonBusVars

\* the gather future completes: publish() returns, or raises what escaped a task
\* (gather without return_exceptions hands the first exception to its awaiter,
\* whose wake-up is queued behind the first steps of all tasks)
PublishReturn(p) ==
    /\ pubs[p].state = "awaiting"
    /\ LET tasks == pubs[p].tasks
           escaped == \E i \in 1..Len(tasks) : tasks[i].st = "escaped"
       IN IF escaped
          THEN /\ \A i \in 1..Len(tasks) : tasks[i].st # "pending"
               /\ pubs' = [pubs EXCEPT ![p].state = "raised"]
          ELSE /\ GatherDone(tasks)
               /\ pubs' = [pubs EXCEPT ![p].state = "returned"]
    /\ UNCHANGED <<handlers, global_handlers, event_history, detached, npublished,
                   nreg, unsub_log, history_result>>
    /\ UNCHANGED nonBusVars

\* a detached task spawned by a handler finishes
DetachedFinish(d) ==
    /\ d \in detached
    /\ detached' = detached \ {d}
    /\ UNCHANGED <<handlers, global_handlers, event_history, pubs, npublished, nreg,
                   unsub_log, history_result>>
    /\ UNCHANGED nonBusVars

GetHistoryCall(kind, limit) ==
    /\ history_result.n < MaxQuery
    /\ history_result' = [n |-> history_result.n + 1, kind |-> kind, limit |-> limit,
                          before |-> event_history,
                          result |-> GetHistory(kind, limit)]
    /\ UNCHANGED <<handlers, global_handlers, event_history, pubs, detached,
                   npublished, nreg, unsub_log>>
    /\ UNCHANGED nonBusVars

(* ----------------------------- AudioCapture --------------------------- *)
NoHandle == 0

\* asyncio.Queue(maxsize=500): put_nowait raises QueueFull on a full queue
QueueFull(q) == Len(q) >= QUEUE_MAXSIZE

\* _enqueue(data): put_nowait; on QueueFull drop the oldest (get_nowait, a
\* QueueEmpty is passed over) and put_nowait again (a QueueFull is passed over)
EnqueueDropNewest(q, data) == IF QueueFull(q) THEN q ELSE Append(q, data)
EnqueueFrame(q, data) ==
    IF ~QueueFull(q)
    THEN Append(q, data)
    ELSE LET q1 == IF Len(q) = 0 THEN q ELSE Tail(q)
         IN IF ~QueueFull(q1) THEN Append(q1, data) ELSE q1

\* start(): "if self._running: warn and return"
StartSpawnsAlways == FALSE
StartIsNoop == audio_running

ThreadDone(t) == threads[t].pc = "done"

\* start(loop)
Start ==
    /\ stop_pc = "idle"
    /\ starts' = starts + 1
    /\ IF StartIsNoop
       THEN UNCHANGED <<audio_running, threads, capture_thread, stopped>>
       ELSE /\ audio_running' = TRUE
            /\ threads' = Append(threads, [pc |-> "init", rd |-> NoHandle])
            /\ capture_thread' = Len(threads) + 1
            /\ stopped' = FALSE
    /\ UNCHANGED <<pa, stream, pa_open, stream_open, produced, pending, audio_queue,
                   nread, stops, stop_pc>>
    /\ UNCHANGED nonAudioVars

\* stop(): self._running = False, then on to the join
StopBegin ==
    /\ stop_pc = "idle"
    /\ stops' = stops + 1
    /\ audio_running' = FALSE
    /\ stop_pc' = IF capture_thread # NoHandle THEN "join" ELSE "close"
    /\ UNCHANGED <<pa, stream, capture_thread, threads, pa_open, stream_open,
                   produced, pending, audio_queue, nread, starts, stopped>>
    /\ UNCHANGED nonAudioVars

\* stop(): self._capture_thread.join(timeout=3) returns: the thread has ended, or
\* the three seconds have passed while it has not
StopJoin(timed_out) ==
    /\ stop_pc = "join"
    /\ timed_out = ~ThreadDone(capture_thread)
    /\ stop_pc' = "close"
    /\ UNCHANGED <<audio_running, pa, stream, capture_thread, threads, pa_open,
                   stream_open, produced, pending, audio_queue, nread, starts, stops,
                   stopped>>
    /\ UNCHANGED nonAudioVars

\* stop(): if self._stream: stop_stream(); close()  (errors passed over)
StopClose ==
    /\ stop_pc = "close"
    /\ stream_open' = IF stream # NoHandle
                      THEN {x \in stream_open : x[1] # stream}
                      ELSE stream_open
    /\ stop_pc' = "terminate"
    /\ UNCHANGED <<audio_running, pa, stream, capture_thread, threads, pa_open,
                   produced, pending, audio_queue, nread, starts, stops, stopped>>
    /\ UNCHANGED nonAudioVars

\* stop(): if self._pa: self._pa.terminate()  (which closes the streams it opened)
StopTerminate ==
    /\ stop_pc = "terminate"
    /\ pa_open' = IF pa # NoHandle THEN pa_open \ {pa} ELSE pa_open
    /\ stream_open' = IF pa # NoHandle
                      THEN {x \in stream_open : x[2] # pa}
                      ELSE stream_open
    /\ stop_pc' = "clear"
    /\ UNCHANGED <<audio_running, pa, stream, capture_thread, threads, produced,
                   pending, audio_queue, nread, starts, stops, stopped>>
    /\ UNCHANGED nonAudioVars

\* stop(): self._stream = None; self._pa = None; return
StopClear ==
    /\ stop_pc = "clear"
    /\ stream' = NoHandle
    /\ pa' = NoHandle
    /\ stop_pc' = "idle"
    /\ stopped' = TRUE
    /\ UNCHANGED <<audio_running, capture_thread, threads, pa_open, stream_open,
                   produced, pending, audio_queue, nread, starts, stops>>
    /\ UNCHANGED nonAudioVars

\* the capture thread leaves _capture_loop: "finally: self._running = False"
ThreadExit(t) ==
    /\ audio_running' = FALSE
    /\ threads' = [threads EXCEPT ![t] = [pc |-> "done", rd |-> NoHandle]]

\* _capture_loop: import pyaudio; self._pa = pyaudio.PyAudio()  (ok: it succeeds)
ThreadInit(t, ok) ==
    /\ threads[t].pc = "init"
    /\ IF ok
       THEN /\ pa' = t
            /\ pa_open' = pa_open \cup {t}
            /\ threads' = [threads EXCEPT ![t].pc = "open"]
            /\ UNCHANGED audio_running
       ELSE /\ ThreadExit(t)
            /\ UNCHANGED <<pa, pa_open>>
    /\ UNCHANGED <<stream, capture_thread, stream_open, produced, pending,
                   audio_queue, nread, starts, stops, stop_pc, stopped>>
    /\ UNCHANGED nonAudioVars

\* _capture_loop: self._stream = self._pa.open(**kwargs)  (ok: the device opens);
\* self._pa is None after a stop(): AttributeError, caught by the outer except
ThreadOpen(t, ok) ==
    /\ threads[t].pc = "open"
    /\ IF ok /\ pa # NoHandle /\ pa \in pa_open
       THEN /\ stream' = t
            /\ stream_open' = stream_open \cup {<<t, pa>>}
            /\ threads' = [threads EXCEPT ![t].pc = "loop"]
            /\ UNCHANGED audio_running
       ELSE /\ ThreadExit(t)
            /\ UNCHANGED <<stream, stream_open>>
    /\ UNCHANGED <<pa, capture_thread, pa_open, produced, pending, audio_queue,
                   nread, starts, stops, stop_pc, stopped>>
    /\ UNCHANGED nonAudioVars

\* _capture_loop: "while self._running:" and the call of self._stream.read;
\* self._stream is None after a stop(): AttributeError, caught by the outer except
ThreadLoop(t) ==
    /\ threads[t].pc = "loop"
    /\ IF audio_running /\ stream # NoHandle
       THEN /\ threads' = [threads EXCEPT ![t] = [pc |-> "reading", rd |-> stream]]
            /\ UNCHANGED audio_running
       ELSE ThreadExit(t)
    /\ UNCHANGED <<pa, stream, capture_thread, pa_open, stream_open, produced,
                   pending, audio_queue, nread, starts, stops, stop_pc, stopped>>
    /\ UNCHANGED nonAudioVars

\* _capture_loop: the blocking read returns a frame, handed to the event loop with
\* call_soon_threadsafe when the loop is running, or raises IOError (logged,
\* "continue"); a read of a stream that stop() closed ends either way
ThreadReadEnd(t, res, loop_running) ==
    /\ threads[t].pc = "reading"
    /\ threads' = [threads EXCEPT ![t] = [pc |-> "loop", rd |-> NoHandle]]
    /\ IF res = "data"
       THEN /\ produced' = produced + 1
            /\ pending' = IF loop_running THEN Append(pending, produced + 1) ELSE pending
       ELSE UNCHANGED <<produced, pending>>
    /\ UNCHANGED <<audio_running, pa, stream, capture_thread, pa_open, stream_open,
                   audio_queue, nread, starts, stops, stop_pc, stopped>>
    /\ UNCHANGED nonAudioVars

\* the event loop runs a scheduled _enqueue(data); stop() runs on the loop's
\* thread (engine.stop), so no callback runs while a stop() is in progress
Enqueue ==
    /\ stop_pc = "idle"
    /\ Len(pending) > 0
    /\ audio_queue' = EnqueueFrame(audio_queue, Head(pending))
    /\ pending' = Tail(pending)
    /\ UNCHANGED <<audio_running, pa, stream, capture_thread, threads, pa_open,
                   stream_open, produced, nread, starts, stops, stop_pc, stopped>>
    /\ UNCHANGED nonAudioVars

\* read_audio(): the awaited self._audio_queue.get() takes the oldest frame
ReadAudioGet ==
    /\ stop_pc = "idle"
    /\ Len(audio_queue) > 0
    /\ audio_queue' = Tail(audio_queue)
    /\ nread' = nread + 1
    /\ UNCHANGED <<audio_running, pa, stream, capture_thread, threads, pa_open,
                   stream_open, produced, pending, starts, stops, stop_pc, stopped>>
    /\ UNCHANGED nonAudioVars

(* ---------------------- AudioCapture.read_audio ---------------------- *)
\* read_audio(): "while self._running or not self._audio_queue.empty():"
ReadAudioWhileRunning(running, q) == running
ReadAudioContinues(running, q) == running \/ Len(q) > 0

\* the generator at its loop condition: it goes on to the awaited get() and is
\* suspended there, or it ends (no suspension point lies in between)
ReadAudioLoop ==
    /\ reader_pc' = IF ReadAudioContinues(audio_running, audio_queue) THEN "get" ELSE "done"
    /\ UNCHANGED <<read_frame, read_stopped>>
    /\ UNCHANGED <<audioVars, nonReaderVars>>

\* the consumer's first pull enters the generator
ReadAudioCall ==
    /\ reader_pc = "none"
    /\ stop_pc = "idle"
    /\ ReadAudioLoop

\* data = await asyncio.wait_for(self._audio_queue.get(), timeout=1.0); yield data
ReadAudioYield ==
    /\ reader_pc = "get"
    /\ stop_pc = "idle"
    /\ Len(audio_queue) > 0
    /\ audio_queue' = Tail(audio_queue)
    /\ nread' = nread + 1
    /\ read_frame' = Head(audio_queue)
    /\ read_stopped' = IF audio_running THEN read_stopped ELSE read_stopped + 1
    /\ reader_pc' = "yield"
    /\ UNCHANGED <<audio_running, pa, stream, capture_thread, threads, pa_open,
                   stream_open, produced, pending, starts, stops, stop_pc, stopped>>
    /\ UNCHANGED nonReaderVars

\* the get() found the queue empty for one second: "except asyncio.TimeoutError: continue"
ReadAudioTimeout ==
    /\ reader_pc = "get"
    /\ stop_pc = "idle"
    /\ Len(audio_queue) = 0
    /\ ReadAudioLoop

\* the consumer pulls the next frame: the generator resumes after its yield
ReadAudioResume ==
    /\ reader_pc = "yield"
    /\ stop_pc = "idle"
    /\ ReadAudioLoop

(* ---------------------------- TingwuClient --------------------------- *)
\* the answers of the remote task-creation API: Code "0" with the task data, or
\* another code with or without a Message
Responses ==
    {[Code |-> "0"], [Code |-> "403", Message |-> "Forbidden"], [Code |-> "500"]}

\* _create_task_sync: if result.get("Code") == "0"
CreateAlwaysStores(resp) == TRUE
CreateSucceeded(resp) == resp.Code = "0"

\* f"创建听悟任务失败: {result.get('Message', 'Unknown error')}"
ErrorMessage(resp) == IF "Message" \in DOMAIN resp THEN resp.Message ELSE "Unknown error"

\* the header names of the inbound text messages, a binary message, and a text
\* message that json.loads or _handle_message cannot process
KnownNames == {"SentenceBegin", "TranscriptionResultChanged", "SentenceEnd",
               "ResultTranslated", "TranscriptionCompleted", "TaskFailed"}
Inbound == KnownNames \cup {"Unknown", "binary", "undecodable"}

\* _handle_message: the event type published for a header name (NoEvent: none)
NoEvent == "none"
EventForAny(name) == "TRANSCRIPTION_PARTIAL"
EventFor(name) ==
    CASE name = "SentenceBegin" -> "TRANSCRIPTION_SENTENCE_BEGIN"
      [] name = "TranscriptionResultChanged" -> "TRANSCRIPTION_PARTIAL"
      [] name = "SentenceEnd" -> "TRANSCRIPTION_SENTENCE_END"
      [] name = "ResultTranslated" -> "TRANSCRIPTION_TRANSLATED"
      [] name = "TranscriptionCompleted" -> "TRANSCRIPTION_COMPLETED"
      [] name = "TaskFailed" -> "TRANSCRIPTION_ERROR"
      [] OTHER -> NoEvent

\* _receive_loop: "except ConnectionClosed" logs; "except Exception" publishes
\* TRANSCRIPTION_ERROR
ExceptionEvent(exc) == IF exc = "ConnectionClosed" THEN NoEvent ELSE "TRANSCRIPTION_ERROR"

\* send_audio / stop_streaming: "if self._ws and self._running"
SendsWhenConnected == ws # NoHandle
ClientStreaming == ws # NoHandle /\ client_running

\* _receive_loop: what ends "async for message in self._ws" without a message
\* (the iteration stops or raises ConnectionClosed once the connection is
\* closed and the messages received before were delivered)
ReceiveEnds(c) == c.st # "open" /\ c.nrecv = Len(c.arrived)

\* a stop_streaming() call is in its grace period
InGrace == \E d \in 1..Len(dcalls) : dcalls[d].pc = "sleep"

\* self.event_bus.publish(Event(type, source="tingwu")) by the client
ClientEvent(type, c, m) == [type |-> type, conn |-> c, msg |-> m, grace |-> InGrace]

\* create_task_with_sdk(): the request goes out on an executor thread
CreateCall ==
    /\ create_pc = "idle"
    /\ create_pc' = "request"
    /\ ncalls' = [ncalls EXCEPT !.create = @ + 1]
    /\ UNCHANGED create_resp
    /\ UNCHANGED <<task_id, meeting_join_url, ws, client_running, receive_task, conns,
                   rx, tw_events, start_pc, dcalls, last_op>>
    /\ UNCHANGED nonClientVars

\* _create_task_sync: the response is in; Code "0": self.task_id = data["TaskId"],
\* otherwise raise RuntimeError with the remote message
CreateResponse(resp) ==
    /\ create_pc = "request"
    /\ create_resp' = resp
    /\ IF CreateSucceeded(resp)
       THEN /\ task_id' = ncalls.create
            /\ create_pc' = "store"
            /\ UNCHANGED last_op
       ELSE /\ create_pc' = "idle"
            /\ last_op' = [op |-> "create", result |-> "error", msg |-> ErrorMessage(resp)]
            /\ UNCHANGED task_id
    /\ UNCHANGED <<meeting_join_url, ws, client_running, receive_task, conns, rx,
                   tw_events, start_pc, dcalls, ncalls>>
    /\ UNCHANGED nonClientVars

\* _create_task_sync: self.meeting_join_url = data["MeetingJoinUrl"]; return data
CreateStore ==
    /\ create_pc = "store"
    /\ meeting_join_url' = task_id
    /\ create_pc' = "idle"
    /\ UNCHANGED create_resp
    /\ last_op' = [op |-> "create", result |-> "ok", msg |-> ""]
    /\ UNCHANGED <<task_id, ws, client_running, receive_task, conns, rx, tw_events,
                   start_pc, dcalls, ncalls>>
    /\ UNCHANGED nonClientVars

\* start_streaming(): "if not self.meeting_join_url"
NoTaskId == task_id = NoHandle
NoMeetingUrl == meeting_join_url = NoHandle

\* start_streaming(): "if not self.meeting_join_url: raise RuntimeError", else
\* on to "await websockets.connect(self.meeting_join_url)"
StartStreamingCall ==
    /\ start_pc = "idle"
    /\ ncalls' = [ncalls EXCEPT !.connect = @ + 1]
    /\ IF NoMeetingUrl
       THEN /\ last_op' = [op |-> "connect", result |-> "error", msg |-> "no task"]
            /\ UNCHANGED start_pc
       ELSE /\ start_pc' = "connecting"
            /\ UNCHANGED last_op
    /\ UNCHANGED <<task_id, meeting_join_url, ws, client_running, receive_task, conns,
                   rx, tw_events, create_pc, create_resp, dcalls>>
    /\ UNCHANGED nonClientVars

\* start_streaming(): the connection is open (or websockets.connect raised):
\* self._ws = ...; self._running = True; send StartTranscription; create the
\* receive task; publish TRANSCRIPTION_STARTED
StartStreamingConnected(ok) ==
    /\ start_pc = "connecting"
    /\ IF ok
       THEN LET c == Len(conns) + 1
            IN /\ conns' = Append(conns, [st |-> "open", sent |-> <<"start">>,
                                          arrived |-> <<>>, nrecv |-> 0])
               /\ ws' = c
               /\ client_running' = TRUE
               /\ rx' = Append(rx, [conn |-> c, pc |-> "recv", cancelled |-> FALSE,
                                    how |-> ""])
               /\ receive_task' = Len(rx) + 1
               /\ tw_events' = Append(tw_events, ClientEvent("TRANSCRIPTION_STARTED", c, 0))
               /\ start_pc' = "publishing"
               /\ UNCHANGED last_op
       ELSE /\ start_pc' = "idle"
            /\ last_op' = [op |-> "connect", result |-> "error", msg |-> "connect failed"]
            /\ UNCHANGED <<conns, ws, client_running, rx, receive_task, tw_events>>
    /\ UNCHANGED <<task_id, meeting_join_url, create_pc, create_resp, dcalls, ncalls>>
    /\ UNCHANGED nonClientVars

\* start_streaming(): the publish of TRANSCRIPTION_STARTED is over; return
StartStreamingReturn ==
    /\ start_pc = "publishing"
    /\ start_pc' = "idle"
    /\ last_op' = [op |-> "connect", result |-> "ok", msg |-> ""]
    /\ UNCHANGED <<task_id, meeting_join_url, ws, client_running, receive_task, conns,
                   rx, tw_events, create_pc, create_resp, dcalls, ncalls>>
    /\ UNCHANGED nonClientVars

\* send_audio(audio_data): forwarded when the guard holds; an exception of the
\* send (the connection is closed) is caught and logged
SendAudio ==
    /\ ncalls' = [ncalls EXCEPT !.send = @ + 1]
    /\ IF ClientStreaming /\ conns[ws].st = "open"
       THEN /\ conns' = [conns EXCEPT ![ws].sent = Append(@, "audio")]
            /\ last_op' = [op |-> "send", result |-> "sent", msg |-> ""]
       ELSE /\ last_op' = [op |-> "send", result |-> "noop", msg |-> ""]
            /\ UNCHANGED conns
    /\ UNCHANGED <<task_id, meeting_join_url, ws, client_running, receive_task, rx,
                   tw_events, create_pc, create_resp, start_pc, dcalls>>
    /\ UNCHANGED nonClientVars

\* stop_streaming(): self._running = False; self._receive_task.cancel()
NoCancel(tasks) == tasks
CancelReceive(tasks) ==
    IF receive_task # NoHandle /\ tasks[receive_task].pc # "done"
    THEN [tasks EXCEPT ![receive_task].cancelled = TRUE]
    ELSE tasks

\* stop_streaming(): nothing to do unless "self._ws and self._running"; else
\* send StopTranscription and sleep two seconds, or, when the send raises, go
\* on at once to stop the receive task
StopStreamingCall ==
    /\ ncalls' = [ncalls EXCEPT !.disconnect = @ + 1]
    /\ IF ~ClientStreaming
       THEN /\ last_op' = [op |-> "disconnect", result |-> "noop", msg |-> ""]
            /\ UNCHANGED <<conns, dcalls, client_running, rx>>
       ELSE IF conns[ws].st = "open"
       THEN /\ conns' = [conns EXCEPT ![ws].sent = Append(@, "stop")]
            /\ dcalls' = Append(dcalls, [pc |-> "sleep", conn |-> ws])
            /\ UNCHANGED <<client_running, rx, last_op>>
       ELSE /\ client_running' = FALSE
            /\ rx' = CancelReceive(rx)
            /\ dcalls' = Append(dcalls, [pc |-> "await", conn |-> ws])
            /\ UNCHANGED <<conns, last_op>>
    /\ UNCHANGED <<task_id, meeting_join_url, ws, receive_task, tw_events, create_pc,
                   create_resp, start_pc>>
    /\ UNCHANGED nonClientVars

\* stop_streaming(): the two seconds are over
StopStreamingWake(d) ==
    /\ dcalls[d].pc = "sleep"
    /\ client_running' = FALSE
    /\ rx' = CancelReceive(rx)
    /\ dcalls' = [dcalls EXCEPT ![d].pc = "await"]
    /\ UNCHANGED <<task_id, meeting_join_url, ws, receive_task, conns, tw_events,
                   create_pc, create_resp, start_pc, ncalls, last_op>>
    /\ UNCHANGED nonClientVars

\* stop_streaming(): "await self._receive_task" is over (CancelledError passed
\* over); await self._ws.close(), where an exception is passed over (self._ws
\* is None once an overlapping call has ended)
StopStreamingClose(d) ==
    /\ dcalls[d].pc = "await"
    /\ receive_task # NoHandle => rx[receive_task].pc = "done"
    /\ dcalls' = [dcalls EXCEPT ![d].pc = "closing"]
    /\ conns' = IF ws # NoHandle THEN [conns EXCEPT ![ws].st = "closed"] ELSE conns
    /\ UNCHANGED <<task_id, meeting_join_url, ws, client_running, receive_task, rx,
                   tw_events, create_pc, create_resp, start_pc, ncalls, last_op>>
    /\ UNCHANGED nonClientVars

\* stop_streaming(): self._ws = None; return
StopStreamingReturn(d) ==
    /\ dcalls[d].pc = "closing"
    /\ ws' = NoHandle
    /\ dcalls' = [dcalls EXCEPT ![d].pc = "done"]
    /\ last_op' = [op |-> "disconnect", result |-> "ok", msg |-> ""]
    /\ UNCHANGED <<task_id, meeting_join_url, client_running, receive_task, conns, rx,
                   tw_events, create_pc, create_resp, start_pc, ncalls>>
    /\ UNCHANGED nonClientVars

\* _receive_loop: the next message is in: "if not self._running: break"; a text
\* message goes through json.loads and _handle_message, which publishes the
\* event of a known name; an exception there is caught by "except Exception",
\* which publishes TRANSCRIPTION_ERROR
RxMessage(t) ==
    LET c == rx[t].conn
        n == conns[c].nrecv + 1
        m == conns[c].arrived[n]
    IN /\ rx[t].pc = "recv"
       /\ ~rx[t].cancelled
       /\ conns[c].nrecv < Len(conns[c].arrived)
       /\ conns' = [conns EXCEPT ![c].nrecv = n]
       /\ IF ~client_running
          THEN /\ rx' = [rx EXCEPT ![t].pc = "done", ![t].how = "break"]
               /\ UNCHANGED tw_events
          ELSE IF m = "binary"
          THEN UNCHANGED <<rx, tw_events>>
          ELSE IF m = "undecodable"
          THEN /\ rx' = [rx EXCEPT ![t].pc = "error"]
               /\ tw_events' = Append(tw_events, ClientEvent(ExceptionEvent("JSONDecodeError"), c, 0))
          ELSE IF EventFor(m) # NoEvent
          THEN /\ rx' = [rx EXCEPT ![t].pc = "publish"]
               /\ tw_events' = Append(tw_events, ClientEvent(EventFor(m), c, n))
          ELSE UNCHANGED <<rx, tw_events>>
       /\ UNCHANGED <<task_id, meeting_join_url, ws, client_running, receive_task,
                      create_pc, create_resp, start_pc, dcalls, ncalls, last_op>>
       /\ UNCHANGED nonClientVars

\* _receive_loop: the publish awaited by _handle_message is over
RxPublished(t) ==
    /\ rx[t].pc = "publish"
    /\ ~rx[t].cancelled
    /\ rx' = [rx EXCEPT ![t].pc = "recv"]
    /\ UNCHANGED <<task_id, meeting_join_url, ws, client_running, receive_task, conns,
                   tw_events, create_pc, create_resp, start_pc, dcalls, ncalls, last_op>>
    /\ UNCHANGED nonClientVars

\* _receive_loop: the publish of TRANSCRIPTION_ERROR in "except Exception" is over
RxFailed(t) ==
    /\ rx[t].pc = "error"
    /\ ~rx[t].cancelled
    /\ rx' = [rx EXCEPT ![t].pc = "done", ![t].how = "failed"]
    /\ UNCHANGED <<task_id, meeting_join_url, ws, client_running, receive_task, conns,
                   tw_events, create_pc, create_resp, start_pc, dcalls, ncalls, last_op>>
    /\ UNCHANGED nonClientVars

\* _receive_loop: the connection is closed: the iteration ends, or
\* "except websockets.exceptions.ConnectionClosed" logs it
RxClosed(t) ==
    /\ rx[t].pc = "recv"
    /\ ~rx[t].cancelled
    /\ ReceiveEnds(conns[rx[t].conn])
    /\ IF ExceptionEvent("ConnectionClosed") = NoEvent
       THEN /\ rx' = [rx EXCEPT ![t].pc = "done", ![t].how = "closed"]
            /\ UNCHANGED tw_events
       ELSE /\ rx' = [rx EXCEPT ![t].pc = "error"]
            /\ tw_events' = Append(tw_events, ClientEvent(ExceptionEvent("ConnectionClosed"),
                                                          rx[t].conn, 0))
    /\ UNCHANGED <<task_id, meeting_join_url, ws, client_running, receive_task, conns,
                   create_pc, create_resp, start_pc, dcalls, ncalls, last_op>>
    /\ UNCHANGED nonClientVars

\* the receive task is resumed after cancel(): CancelledError is raised at its
\* await and caught by neither except clause
RxCancelled(t) ==
    /\ rx[t].pc # "done"
    /\ rx[t].cancelled
    /\ rx' = [rx EXCEPT ![t].pc = "done", ![t].how = "cancelled"]
    /\ UNCHANGED <<task_id, meeting_join_url, ws, client_running, receive_task, conns,
                   tw_events, create_pc, create_resp, start_pc, dcalls, ncalls, last_op>>
    /\ UNCHANGED nonClientVars

\* the remote service sends a message on an open connection
PeerSend(c, m) ==
    /\ conns[c].st = "open"
    /\ conns' = [conns EXCEPT ![c].arrived = Append(@, m)]
    /\ UNCHANGED <<task_id, meeting_join_url, ws, client_running, receive_task, rx,
                   tw_events, create_pc, create_resp, start_pc, dcalls, ncalls, last_op>>
    /\ UNCHANGED nonClientVars

\* the remote service closes an open connection
PeerClose(c) ==
    /\ conns[c].st = "open"
    /\ conns' = [conns EXCEPT ![c].st = "peer_closed"]
    /\ UNCHANGED <<task_id, meeting_join_url, ws, client_running, receive_task, rx,
                   tw_events, create_pc, create_resp, start_pc, dcalls, ncalls, last_op>>
    /\ UNCHANGED nonClientVars

\* an open connection is lost without a closing handshake: the iteration over
\* the connection raises ConnectionClosedError, which is a ConnectionClosed
ConnectionLost(c) ==
    /\ conns[c].st = "open"
    /\ conns' = [conns EXCEPT ![c].st = "lost"]
    /\ UNCHANGED <<task_id, meeting_join_url, ws, client_running, receive_task, rx,
                   tw_events, create_pc, create_resp, start_pc, dcalls, ncalls, last_op>>
    /\ UNCHANGED nonClientVars

(* ------------------------------ AIEngine ------------------------------ *)
\* _detect_question: self._sentence_buffer[-5:] if len(...) >= 5 else the buffer.
\* "\n".join(recent) is kept as the sequence of the sentences: the texts of the
\* model hold no line break, so that the joined texts are equal exactly when
\* the sequences are.
WholeBuffer(buf) == buf
DetectionWindow(buf) ==
    IF Len(buf) >= WINDOW THEN PySliceFrom(buf, 0 - WINDOW) ELSE buf

\* transcript == getattr(self, '_last_transcript_for_detection', '')
NeverSameWindow(transcript, last) == FALSE
SameWindow(transcript, last) == transcript = last

\* self._last_transcript_for_detection = transcript
KeepsFirst(transcript, last) == last
Remembered(transcript, last) == transcript

\* What llm.chat and _parse_json_response gave one call:
\*   raise   llm.chat raised (transport error, timeout)
\*   none    the response does not decode: _parse_json_response returns None
\*   value   the response decodes to a JSON value that is no object; truthy
\*           tells whether Python takes it as true ([1] is, [] and 0 are not)
\*   object  the response decodes to the object obj; confidence is in hundredths
\* result.get(key, default)
Get(obj, key, default) == IF key \in DOMAIN obj THEN obj[key] ELSE default

\* "if result": None, an empty container and 0 are false
Truthy(reply) ==
    CASE reply.kind = "none" -> FALSE
      [] reply.kind = "value" -> reply.truthy
      [] reply.kind = "object" -> DOMAIN reply.obj # {}
      [] OTHER -> FALSE

\* result.get(...) on a value that is no object raises AttributeError
GetRaises(reply) == reply.kind = "value" /\ reply.truthy

\* result and result.get("is_question") and result.get("confidence", 0) >= 0.7
AboveOnly(confidence) == confidence > MIN_CONFIDENCE
ConfidentEnough(confidence) == confidence >= MIN_CONFIDENCE
Accepted(reply) ==
    /\ reply.kind = "object"
    /\ Truthy(reply)
    /\ Get(reply.obj, "is_question", FALSE)
    /\ ConfidentEnough(Get(reply.obj, "confidence", 0))

\* question_text and question_text == self._last_detected_question
DuplicateQuestion(question_text, last) == question_text # "" /\ question_text = last

\* the event the engine publishes: the ghost field window is the text the run
\* that publishes it analysed
EngineEvent(type, question, answer, window) ==
    [type |-> type, question |-> question, answer |-> answer, window |-> window]

\* _on_sentence_end for an event whose text is text ("": a text that is empty
\* after strip()): what one invocation does to the engine
EngineOnSentenceEnd(text) ==
    /\ IF text = ""
       THEN UNCHANGED <<sentence_buffer, det_waiting>>
       ELSE /\ sentence_buffer' = Append(sentence_buffer, text)
            /\ det_waiting' = IF config.enable_question_detection
                               THEN det_waiting + 1 ELSE det_waiting
    /\ UNCHANGED <<config, ai_running, periodic_pc, det, last_transcript,
                   last_detected_question, gen_tasks, now, last_summary_time,
                   last_suggest_time, ai_events, det_log, launches, ai_stop_pc, ai_calls>>

\* _on_sentence_end, called by the bus for a TRANSCRIPTION_SENTENCE_END event:
\* a started engine has subscribed it once
OnSentenceEnd(text) ==
    /\ ai_calls.start > 0
    /\ EngineOnSentenceEnd(text)
    /\ UNCHANGED nonAIVars

\* How det_log records a finished detection run: FullLog keeps every run,
\* RecentLog the last two (for the long runs, where only the end matters);
\* each specification says which of the two it records.
FullLog(log, entry) == Append(log, entry)
RecentLog(log, entry) ==
    IF Len(log) < 2 THEN Append(log, entry) ELSE <<log[Len(log)], entry>>
Logged(log, entry, recent) ==
    IF recent THEN RecentLog(log, entry) ELSE FullLog(log, entry)

\* async with self._analysis_lock: a task gets the lock when no detection run
\* is inside the block (det is the run inside it)
LockIgnored(holder) == TRUE
LockFree(holder) == holder.pc = "idle"

\* _detect_question up to its first suspension inside the lock: the oldest
\* waiting task gets _analysis_lock, builds the window and either returns or
\* starts the call of the reasoning capability
DetectBegin(recent) ==
    /\ LockFree(det)
    /\ det_waiting > 0
    /\ det_waiting' = det_waiting - 1
    /\ LET transcript == DetectionWindow(sentence_buffer)
       IN IF SameWindow(transcript, last_transcript)
          THEN /\ det_log' = Logged(det_log, [window |-> transcript, called |-> FALSE,
                                              reply |-> [kind |-> "no call"],
                                              outcome |-> "skipped"], recent)
               /\ UNCHANGED <<det, last_transcript>>
          ELSE /\ last_transcript' = Remembered(transcript, last_transcript)
               /\ det' = [pc |-> "llm", window |-> transcript]
               /\ UNCHANGED det_log
    /\ UNCHANGED <<config, sentence_buffer, ai_running, periodic_pc,
                   last_detected_question, gen_tasks, now, last_summary_time,
                   last_suggest_time, ai_events, launches, ai_stop_pc, ai_calls>>
    /\ UNCHANGED nonAIVars

\* _detect_question from the answer of the reasoning capability to the first
\* publish (or to its return when nothing is published): what it does to the
\* engine
EngineDetectReply(reply, recent) ==
    /\ det.pc = "llm"
    /\ LET question_text == Get(reply.obj, "question_text", "")
           answer == Get(reply.obj, "answer", "")
           entry(outcome) == [window |-> det.window, called |-> TRUE, reply |-> reply,
                              outcome |-> outcome]
       IN IF reply.kind = "raise" \/ GetRaises(reply)
          THEN /\ det_log' = Logged(det_log, entry("failed"), recent)
               /\ det' = [pc |-> "idle"]
               /\ UNCHANGED <<last_detected_question, ai_events>>
          ELSE IF ~Accepted(reply)
          THEN /\ det_log' = Logged(det_log, entry("rejected"), recent)
               /\ det' = [pc |-> "idle"]
               /\ UNCHANGED <<last_detected_question, ai_events>>
          ELSE IF DuplicateQuestion(question_text, last_detected_question)
          THEN /\ det_log' = Logged(det_log, entry("suppressed"), recent)
               /\ det' = [pc |-> "idle"]
               /\ UNCHANGED <<last_detected_question, ai_events>>
          ELSE /\ last_detected_question' = question_text
               /\ ai_events' = Append(ai_events,
                                      EngineEvent("QUESTION_DETECTED", question_text,
                                                  answer, det.window))
               /\ det_log' = Logged(det_log, entry("published"), recent)
               /\ det' = [pc |-> "answer", window |-> det.window,
                          question |-> question_text, answer |-> answer]
    /\ UNCHANGED <<config, sentence_buffer, ai_running, periodic_pc, det_waiting,
                   last_transcript, gen_tasks, now, last_summary_time,
                   last_suggest_time, launches, ai_stop_pc, ai_calls>>

DetectReply(reply, recent) == EngineDetectReply(reply, recent) /\ UNCHANGED nonAIVars

\* the event of the second publish: the question_text and answer of the
\* first one
AnswerWithoutQuestion(run) == EngineEvent("ANSWER_GENERATED", "", run.answer, run.window)
AnswerEvent(run) == EngineEvent("ANSWER_GENERATED", run.question, run.answer, run.window)

\* _detect_question after the first publish returned: the second publish
EngineDetectAnswer ==
    /\ det.pc = "answer"
    /\ ai_events' = Append(ai_events, AnswerEvent(det))
    /\ det' = [pc |-> "answered", window |-> det.window]
    /\ UNCHANGED <<config, sentence_buffer, ai_running, periodic_pc, det_waiting,
                   last_transcript, last_detected_question, gen_tasks, now,
                   last_summary_time, last_suggest_time, det_log, launches,
                   ai_stop_pc, ai_calls>>

DetectAnswer == EngineDetectAnswer /\ UNCHANGED nonAIVars

\* _detect_question after the second publish returned: the block of the lock
\* ends and the lock is released
DetectEnd ==
    /\ det.pc = "answered"
    /\ det' = [pc |-> "idle"]
    /\ UNCHANGED <<config, sentence_buffer, ai_running, periodic_pc, det_waiting,
                   last_transcript, last_detected_question, gen_tasks, now,
                   last_summary_time, last_suggest_time, ai_events, det_log,
                   launches, ai_stop_pc, ai_calls>>
    /\ UNCHANGED nonAIVars

\* _periodic_loop: the two gates, for the clock reading t, the time stamp last
\* of the gate and a buffer of n sentences
SummaryGateAtLeast(cfg, t, last, n) ==
    /\ cfg.enable_periodic_summary
    /\ t - last >= cfg.summary_interval_minutes * 60
    /\ n >= SUMMARY_MIN_SENTENCES
SummaryGate(cfg, t, last, n) ==
    /\ cfg.enable_periodic_summary
    /\ t - last >= cfg.summary_interval_minutes * 60
    /\ n > SUMMARY_MIN_SENTENCES
SuggestGate(cfg, t, last, n) ==
    /\ cfg.enable_suggest_questions
    /\ t - last >= SUGGEST_INTERVAL
    /\ n > SUGGEST_MIN_SENTENCES

\* self._last_summary_time = now / self._last_suggest_time = now, in the branch
\* that creates the task
StampNever(fired, t, last) == last
Stamp(fired, t, last) == IF fired THEN t ELSE last

\* a generation task, created at the clock reading t and not yet run; window
\* is the text it analyses (<<>> before its first step) and after_stop tells
\* whether stop() had returned when the task got its answer
GenTask(kind, t) == [kind |-> kind, pc |-> "created", at |-> t, window |-> <<>>,
                     reply |-> [kind |-> "pending"],
                     published |-> FALSE, after_stop |-> FALSE]

\* recent = self._sentence_buffer[-50:] / [-30:] / [-60:]: a copy of the last
\* sentences, joined into the prompt before the call of the reasoning capability
GenWindow(kind, buf) ==
    CASE kind = "summary" -> PySliceFrom(buf, 0 - SUMMARY_WINDOW)
      [] kind = "suggest" -> PySliceFrom(buf, 0 - SUGGEST_WINDOW)
      [] kind = "ideas" -> PySliceFrom(buf, 0 - IDEAS_WINDOW)

\* what a generation publishes about the text it analysed ("sentence_count":
\* len(recent) of the summary): taken from the copy made at its first step
LiveText(task, buf) == GenWindow(task.kind, buf)
AnalysedText(task, buf) == task.window

\* the event type each generation publishes
GenEvent(kind) ==
    CASE kind = "summary" -> "PERIODIC_SUMMARY"
      [] kind = "suggest" -> "SUGGEST_QUESTION"
      [] kind = "ideas" -> "CREATIVE_IDEAS"

\* stop(): "await self._periodic_task" returns when the task has ended
DoesNotAwait(pc) == TRUE
LoopEnded(pc) == pc = "done"

\* AIEngine.start(): what it does to the engine
EngineStart ==
    /\ ai_running' = TRUE
    /\ periodic_pc' = "sleep"
    /\ ai_calls' = [ai_calls EXCEPT !.start = @ + 1]
    /\ ai_stop_pc' = "idle"
    /\ UNCHANGED <<config, sentence_buffer, det_waiting, det, last_transcript,
                   last_detected_question, gen_tasks, now, last_summary_time,
                   last_suggest_time, ai_events, det_log, launches>>

\* AIEngine.start() on an engine that has not been started before (engine.py
\* creates the engine and starts it once); the subscriptions it makes are those
\* OnSentenceEnd stands for
AIStart ==
    /\ ai_calls.start = 0
    /\ EngineStart
    /\ UNCHANGED nonAIVars

\* _periodic_loop: asyncio.sleep(30) returns d seconds after the last reading
\* of the clock, the gates are evaluated, the loop goes back to sleep
EngineWake(d) ==
    /\ d >= SLEEP_SECONDS
    /\ now' = now + d
    /\ LET n == Len(sentence_buffer)
           summary == SummaryGate(config, now', last_summary_time, n)
           suggest == SuggestGate(config, now', last_suggest_time, n)
           fired(gate, prev) == [gate |-> gate, at |-> now', prev |-> prev, len |-> n]
       IN /\ gen_tasks' = gen_tasks
                 \o (IF summary THEN <<GenTask("summary", now')>> ELSE <<>>)
                 \o (IF suggest THEN <<GenTask("suggest", now')>> ELSE <<>>)
          /\ last_summary_time' = Stamp(summary, now', last_summary_time)
          /\ last_suggest_time' = Stamp(suggest, now', last_suggest_time)
          /\ launches' = launches
                 \o (IF summary THEN <<fired("summary", last_summary_time)>> ELSE <<>>)
                 \o (IF suggest THEN <<fired("suggest", last_suggest_time)>> ELSE <<>>)
    /\ ai_calls' = [ai_calls EXCEPT !.wake = @ + 1]
    /\ UNCHANGED <<config, sentence_buffer, ai_running, det_waiting, det,
                   last_transcript, last_detected_question, ai_events, det_log,
                   ai_stop_pc>>

\* the loop goes on while self._running
LoopAfterWake(running) == IF running THEN "sleep" ELSE "done"

PeriodicWake(d) ==
    /\ periodic_pc = "sleep"
    /\ EngineWake(d)
    /\ periodic_pc' = LoopAfterWake(ai_running)
    /\ UNCHANGED nonAIVars

\* _periodic_loop after stop() cancelled it: CancelledError is raised at the
\* sleep (or the task never starts) and the loop ends
PeriodicCancelled ==
    /\ periodic_pc = "cancelling"
    /\ periodic_pc' = "done"
    /\ UNCHANGED <<config, sentence_buffer, ai_running, det_waiting, det,
                   last_transcript, last_detected_question, gen_tasks, now,
                   last_summary_time, last_suggest_time, ai_events, det_log,
                   launches, ai_stop_pc, ai_calls>>
    /\ UNCHANGED nonAIVars

\* AIEngine.stop() up to "await self._periodic_task"; with no task, or a task
\* that has ended, it returns at once
AIStop ==
    /\ ai_stop_pc # "await"
    /\ ai_running' = FALSE
    /\ ai_calls' = [ai_calls EXCEPT !.stop = @ + 1]
    /\ IF periodic_pc = "sleep"
       THEN periodic_pc' = "cancelling" /\ ai_stop_pc' = "await"
       ELSE UNCHANGED periodic_pc /\ ai_stop_pc' = "returned"
    /\ UNCHANGED <<config, sentence_buffer, det_waiting, det, last_transcript,
                   last_detected_question, gen_tasks, now, last_summary_time,
                   last_suggest_time, ai_events, det_log, launches>>
    /\ UNCHANGED nonAIVars

\* AIEngine.stop(): the awaited task has ended, stop() returns
AIStopReturn ==
    /\ ai_stop_pc = "await"
    /\ LoopEnded(periodic_pc)
    /\ ai_stop_pc' = "returned"
    /\ UNCHANGED <<config, sentence_buffer, ai_running, periodic_pc, det_waiting, det,
                   last_transcript, last_detected_question, gen_tasks, now,
                   last_summary_time, last_suggest_time, ai_events, det_log,
                   launches, ai_calls>>
    /\ UNCHANGED nonAIVars

\* _generate_summary and _suggest_question, created by the periodic loop, at
\* their first step: up to the call of the reasoning capability
GenBegin(i) ==
    /\ i \in 1..Len(gen_tasks)
    /\ gen_tasks[i].pc = "created"
    /\ gen_tasks' = [gen_tasks EXCEPT ![i].pc = "llm",
                                      ![i].window = GenWindow(gen_tasks[i].kind,
                                                              sentence_buffer)]
    /\ UNCHANGED <<config, sentence_buffer, ai_running, periodic_pc, det_waiting, det,
                   last_transcript, last_detected_question, now, last_summary_time,
                   last_suggest_time, ai_events, det_log, launches, ai_stop_pc,
                   ai_calls>>
    /\ UNCHANGED nonAIVars

\* generate_creative_ideas(), called and awaited by the application, up to the
\* call of the reasoning capability
GenerateCreativeIdeas ==
    /\ gen_tasks' = Append(gen_tasks,
                           [GenTask("ideas", now) EXCEPT
                               !.pc = "llm",
                               !.window = GenWindow("ideas", sentence_buffer)])
    /\ ai_calls' = [ai_calls EXCEPT !.ideas = @ + 1]
    /\ UNCHANGED <<config, sentence_buffer, ai_running, periodic_pc, det_waiting, det,
                   last_transcript, last_detected_question, now, last_summary_time,
                   last_suggest_time, ai_events, det_log, launches, ai_stop_pc>>
    /\ UNCHANGED nonAIVars

\* _generate_summary, _suggest_question and generate_creative_ideas from the
\* answer of the reasoning capability on: "if result" publishes the event,
\* "except Exception" logs
GenReply(i, reply) ==
    /\ i \in 1..Len(gen_tasks)
    /\ gen_tasks[i].pc = "llm"
    /\ LET publishes == reply.kind # "raise" /\ Truthy(reply)
       IN /\ gen_tasks' = [gen_tasks EXCEPT ![i].pc = "done", ![i].reply = reply,
                                            ![i].published = publishes,
                                            ![i].after_stop = (ai_stop_pc = "returned")]
          /\ ai_events' = IF publishes
                          THEN Append(ai_events,
                                      EngineEvent(GenEvent(gen_tasks[i].kind), "", "",
                                                  AnalysedText(gen_tasks[i],
                                                               sentence_buffer)))
                          ELSE ai_events
    /\ UNCHANGED <<config, sentence_buffer, ai_running, periodic_pc, det_waiting, det,
                   last_transcript, last_detected_question, now, last_summary_time,
                   last_suggest_time, det_log, launches, ai_stop_pc, ai_calls>>
    /\ UNCHANGED nonAIVars

(* ------------------------ the engine on the bus ----------------------- *)
\* the handlers start() subscribes, and the kinds it subscribes them to
SENTENCE_END == "TRANSCRIPTION_SENTENCE_END"
PARTIAL == "TRANSCRIPTION_PARTIAL"
OnSentenceEndHandler == "_on_sentence_end"
OnPartialHandler == "_on_partial_result"

\* AIEngine.start(), any call of it: the flag, the two subscriptions (one more
\* registration of each handler on every call), a new _periodic_loop task; the
\* task _periodic_task referred to is not cancelled and, when it has not ended,
\* goes on. (start() is not called while a stop() call is waiting.)
StartOnBus ==
    /\ ai_stop_pc # "await"
    /\ EngineStart
    /\ handlers' = WithHandler(WithHandler(handlers, SENTENCE_END, OnSentenceEndHandler,
                                           nreg + 1),
                               PARTIAL, OnPartialHandler, nreg + 2)
    /\ nreg' = nreg + 2
    /\ old_loops' = IF periodic_pc = "sleep" THEN Append(old_loops, "sleep") ELSE old_loops
    /\ UNCHANGED <<global_handlers, event_history, pubs, detached, npublished,
                   unsub_log, history_result>>
    /\ UNCHANGED <<audioVars, readerVars, clientVars, parseVars, ev_text>>

\* a _periodic_loop task that _periodic_task no longer refers to wakes up: the
\* same loop body; stop() does not cancel it, it ends when it finds _running
\* false
OldLoopWake(k, d) ==
    /\ k \in 1..Len(old_loops)
    /\ old_loops[k] = "sleep"
    /\ EngineWake(d)
    /\ old_loops' = [old_loops EXCEPT ![k] = LoopAfterWake(ai_running)]
    /\ UNCHANGED periodic_pc
    /\ UNCHANGED <<busVars, audioVars, readerVars, clientVars, parseVars, ev_text>>

\* publish() of a TRANSCRIPTION_SENTENCE_END event whose text is text, by the
\* stream client or by a handler
PublishSentence(text) ==
    /\ BusPublish(SENTENCE_END)
    /\ ev_text' = ((npublished + 1) :> [text |-> text,
                                         after_stop |-> ai_stop_pc = "returned",
                                         during |-> det.pc])
                       @@ ev_text
    /\ UNCHANGED <<aiVars, audioVars, readerVars, clientVars, parseVars, old_loops>>

\* _on_sentence_end hands the detection to asyncio.create_task and does not
\* await it: the handler has no await and ends in its first step
SentenceHandlerWaits == "suspend"
SentenceHandlerEnds == "ok"

\* the bus runs one registration of _on_sentence_end for a sentence event
SentenceHandler(p, i) ==
    /\ p \in 1..Len(pubs)
    /\ i \in 1..Len(pubs[p].tasks)
    /\ pubs[p].ev.type = SENTENCE_END
    /\ pubs[p].tasks[i].h = OnSentenceEndHandler
    /\ BusHandlerStart(p, i, SentenceHandlerEnds, FALSE)
    /\ EngineOnSentenceEnd(ev_text[pubs[p].ev.id].text)
    /\ UNCHANGED <<audioVars, readerVars, clientVars, parseVars, wireVars>>

\* await self.event_bus.publish(...) of the engine has returned: the publish
\* call of that kind is not waiting for its handlers and has not raised; it
\* does not wait for the detection tasks launched while it ran
PublishAwaitsDetections(k) ==
    /\ det_waiting = 0
    /\ \A p \in 1..Len(pubs) : pubs[p].ev.type = k => pubs[p].state = "returned"
PublishDone(k) ==
    \A p \in 1..Len(pubs) : pubs[p].ev.type = k => pubs[p].state = "returned"

\* _detect_question from the answer of the reasoning capability to the await of
\* publish(QUESTION_DETECTED), or to its return when nothing is published
DetectReplyOnBus(reply, recent) ==
    /\ EngineDetectReply(reply, recent)
    /\ IF det'.pc = "answer" THEN BusPublish("QUESTION_DETECTED") ELSE UNCHANGED busVars
    /\ UNCHANGED <<audioVars, readerVars, clientVars, parseVars, wireVars>>

\* _detect_question from the return of publish(QUESTION_DETECTED) to the await
\* of publish(ANSWER_GENERATED)
DetectAnswerOnBus ==
    /\ PublishDone("QUESTION_DETECTED")
    /\ EngineDetectAnswer
    /\ BusPublish("ANSWER_GENERATED")
    /\ UNCHANGED <<audioVars, readerVars, clientVars, parseVars, wireVars>>

\* _detect_question from the return of publish(ANSWER_GENERATED) on
DetectEndOnBus ==
    /\ PublishDone("ANSWER_GENERATED")
    /\ DetectEnd

(* ---------------------- _parse_json_response ------------------------ *)
\* A text is a sequence of tokens: "fence" for the three backquotes of a code
\* fence, the word json, the braces,
\* "k" for a key with its colon ("k":), "1" for a number, "x" for a word that
\* is no JSON, and " " for white space.
Tokens == {"fence", "json", "{", "}", "k", "1", "x", " "}

\* text.strip()
RECURSIVE LStrip(_)
LStrip(t) == IF t # <<>> /\ t[1] = " " THEN LStrip(SubSeq(t, 2, Len(t))) ELSE t
RECURSIVE RStrip(_)
RStrip(t) == IF t # <<>> /\ t[Len(t)] = " " THEN RStrip(SubSeq(t, 1, Len(t) - 1)) ELSE t
Strip(t) == RStrip(LStrip(t))

\* text.startswith(prefix), text.endswith(suffix)
StartsWith(t, prefix) ==
    Len(t) >= Len(prefix) /\ SubSeq(t, 1, Len(prefix)) = prefix
EndsWith(t, suffix) ==
    Len(t) >= Len(suffix) /\ SubSeq(t, Len(t) - Len(suffix) + 1, Len(t)) = suffix

\* text.find(c) and text.rfind(c): the 0-based index, -1 when c is not there
Find(t, c) ==
    IF \E i \in 1..Len(t) : t[i] = c
    THEN (CHOOSE i \in 1..Len(t) : t[i] = c /\ \A j \in 1..(i - 1) : t[j] # c) - 1
    ELSE 0 - 1
RFind(t, c) ==
    IF \E i \in 1..Len(t) : t[i] = c
    THEN (CHOOSE i \in 1..Len(t) : t[i] = c /\ \A j \in (i + 1)..Len(t) : t[j] # c) - 1
    ELSE 0 - 1

\* json.loads: white space between the tokens does not count; a value is a
\* number, the empty object, or an object with one key and a value
NoSpace(t) == SelectSeq(t, LAMBDA c : c # " ")
RECURSIVE IsValue(_)
IsValue(v) ==
    \/ v = <<"1">>
    \/ v = <<"{", "}">>
    \/ /\ Len(v) >= 4
       /\ v[1] = "{" /\ v[2] = "k" /\ v[Len(v)] = "}"
       /\ IsValue(SubSeq(v, 3, Len(v) - 1))
Decodes(t) == IsValue(NoSpace(t))
\* what json.loads returns / the None of _parse_json_response
Decoded(t) == [kind |-> "value", tokens |-> NoSpace(t)]
NoResult == [kind |-> "none"]

\* the except branch: text[start:end] from the first "{" to the last "}"
NoSearch(t) == NoResult
BraceSearch(t) ==
    LET start == Find(t, "{")
        end == RFind(t, "}") + 1
    IN IF start >= 0 /\ end > start
       THEN LET part == SubSeq(t, start + 1, end)
            IN IF Decodes(part) THEN Decoded(part) ELSE NoResult
       ELSE NoResult

ParseJsonResponse(text) ==
    LET t1 == Strip(text)
        t2 == IF StartsWith(t1, <<"fence", "json">>) THEN SubSeq(t1, 3, Len(t1))
              ELSE IF StartsWith(t1, <<"fence">>) THEN SubSeq(t1, 2, Len(t1))
              ELSE t1
        t3 == IF EndsWith(t2, <<"fence">>) THEN SubSeq(t2, 1, Len(t2) - 1) ELSE t2
        t4 == Strip(t3)
    IN IF Decodes(t4) THEN Decoded(t4) ELSE BraceSearch(t4)

\* one call of _parse_json_response
ParseCall(text) ==
    /\ parse_text' = text
    /\ parse_result' = ParseJsonResponse(text)
    /\ UNCHANGED nonParseVars

InitPipeline ==
    /\ handlers = <<>>
    /\ global_handlers = <<>>
    /\ event_history = <<>>
    /\ pubs = <<>>
    /\ detached = {}
    /\ npublished = 0
    /\ nreg = 0
    /\ unsub_log = <<>>
    /\ history_result = [n |-> 0, kind |-> None, limit |-> 0, before |-> <<>>,
                         result |-> <<>>]
    /\ audio_running = FALSE
    /\ pa = NoHandle
    /\ stream = NoHandle
    /\ capture_thread = NoHandle
    /\ threads = <<>>
    /\ pa_open = {}
    /\ stream_open = {}
    /\ produced = 0
    /\ pending = <<>>
    /\ audio_queue = <<>>
    /\ nread = 0
    /\ starts = 0
    /\ stops = 0
    /\ stop_pc = "idle"
    /\ stopped = FALSE
    /\ reader_pc = "none"
    /\ read_frame = 0
    /\ read_stopped = 0
    /\ task_id = NoHandle
    /\ meeting_join_url = NoHandle
    /\ ws = NoHandle
    /\ client_running = FALSE
    /\ receive_task = NoHandle
    /\ conns = <<>>
    /\ rx = <<>>
    /\ tw_events = <<>>
    /\ create_pc = "idle"
    /\ create_resp = [Code |-> ""]
    /\ start_pc = "idle"
    /\ dcalls = <<>>
    /\ ncalls = [create |-> 0, connect |-> 0, send |-> 0, disconnect |-> 0]
    /\ last_op = [op |-> "", result |-> "", msg |-> ""]

\* ClassroomConfig: the defaults
DefaultConfig == [enable_question_detection |-> TRUE,
                  enable_periodic_summary |-> TRUE,
                  enable_suggest_questions |-> TRUE,
                  summary_interval_minutes |-> 10]

\* AIEngine.__init__ with the configuration cfg; the clock reads Epoch
InitEngine(cfg) ==
    /\ config = cfg
    /\ sentence_buffer = <<>>
    /\ ai_running = FALSE
    /\ periodic_pc = "none"
    /\ det_waiting = 0
    /\ det = [pc |-> "idle"]
    /\ last_transcript = <<>>
    /\ last_detected_question = ""
    /\ gen_tasks = <<>>
    /\ now = Epoch
    /\ last_summary_time = 0
    /\ last_suggest_time = 0
    /\ ai_events = <<>>
    /\ det_log = <<>>
    /\ launches = <<>>
    /\ ai_stop_pc = "idle"
    /\ ai_calls = [start |-> 0, stop |-> 0, ideas |-> 0, wake |-> 0]

\* _parse_json_response has not been called
InitParser ==
    /\ parse_text = <<>>
    /\ parse_result = [kind |-> "not called"]

\* no sentence event has been published, start() has been called at most once
InitWire ==
    /\ ev_text = <<>>
    /\ old_loops = <<>>

Init == InitPipeline /\ InitEngine(DefaultConfig) /\ InitParser /\ InitWire

\* Handlers and event kinds are interchangeable names to the bus: the first
\* handler and the first kind a run names are h1 and TRANSCRIPTION_SENTENCE_END
\* (every other run is one of these with the names exchanged).
FirstHandler(h) == (nreg = 0 /\ unsub_log = <<>>) => h = "h1"
FirstKind(k) ==
    (DOMAIN handlers = {} /\ npublished = 0 /\ unsub_log = <<>>)
        => k = "TRANSCRIPTION_SENTENCE_END"

\* what a handler does when it runs: return, raise, or suspend first
Behaviour == {"ok", "error", "suspend"}
Outcome == {"ok", "error"}

Next ==
    \/ \E k \in EventType, h \in HandlerIds :
          FirstKind(k) /\ FirstHandler(h) /\ Subscribe(k, h)
    \/ \E h \in HandlerIds : FirstHandler(h) /\ SubscribeAll(h)
    \/ \E k \in EventType : npublished < MaxPublish /\ FirstKind(k) /\ Publish(k)
    \/ \E p \in 1..Len(pubs) : \E i \in 1..Len(pubs[p].tasks) :
          \E beh \in Behaviour, spawn \in BOOLEAN : HandlerStart(p, i, beh, spawn)
    \/ \E p \in 1..Len(pubs) : \E i \in 1..Len(pubs[p].tasks) :
          \E out \in Outcome : HandlerResume(p, i, out)
    \/ \E p \in 1..Len(pubs) : PublishReturn(p)
    \/ \E d \in detached : DetachedFinish(d)

Spec == Init /\ [][Next]_vars

\* subscribe / unsubscribe / publish with handlers that return at once
NextUnsub ==
    \/ \E k \in EventType, h \in HandlerIds :
          FirstKind(k) /\ FirstHandler(h) /\ Subscribe(k, h)
    \/ \E h \in HandlerIds : FirstHandler(h) /\ SubscribeAll(h)
    \/ \E k \in EventType, h \in HandlerIds :
          FirstKind(k) /\ FirstHandler(h) /\ Unsubscribe(k, h)
    \/ \E k \in EventType : npublished < MaxPublish /\ FirstKind(k) /\ Publish(k)
    \/ \E p \in 1..Len(pubs) : \E i \in 1..Len(pubs[p].tasks) :
          HandlerStart(p, i, "ok", FALSE)
    \/ \E p \in 1..Len(pubs) : PublishReturn(p)

SpecUnsub == Init /\ [][NextUnsub]_vars

\* subscribe / subscribe_all / unsubscribe called at any moment, also while
\* the handlers of a publish run (a call made by a handler is one of these),
\* with handlers that return, fail or suspend; a publish call and the next
\* one, for events of one kind, one global subscriber at most, and the bus is
\* called MaxCalls times at most
MaxCalls == 5
CallsMade == nreg + Len(unsub_log) + npublished

NextSnapshot ==
    \/ \E h \in HandlerIds :
          CallsMade < MaxCalls /\ FirstHandler(h) /\ Subscribe(SENTENCE_END, h)
    \/ \E h \in HandlerIds :
          /\ CallsMade < MaxCalls /\ global_handlers = <<>>
          /\ FirstHandler(h) /\ SubscribeAll(h)
    \/ \E h \in HandlerIds :
          CallsMade < MaxCalls /\ FirstHandler(h) /\ Unsubscribe(SENTENCE_END, h)
    \/ CallsMade < MaxCalls /\ npublished < 2 /\ Publish(SENTENCE_END)
    \/ \E p \in 1..Len(pubs) : \E i \in 1..Len(pubs[p].tasks) :
          \E beh \in Behaviour : HandlerStart(p, i, beh, FALSE)
    \/ \E p \in 1..Len(pubs) : \E i \in 1..Len(pubs[p].tasks) :
          \E out \in Outcome : HandlerResume(p, i, out)
    \/ \E p \in 1..Len(pubs) : PublishReturn(p)

SpecSnapshot == Init /\ [][NextSnapshot]_vars

\* the bus publishing past the capacity of its history, no subscriber
KindOf(n) == IF n % 2 = 1 THEN "TRANSCRIPTION_SENTENCE_END" ELSE "QUESTION_DETECTED"

NextHistory ==
    /\ npublished < MAX_HISTORY + MaxExtra
    /\ Publish(KindOf(npublished + 1))

SpecHistory == Init /\ [][NextHistory]_vars

\* get_history() on a bus that published a few events of either kind
NextQuery ==
    \/ \E k \in EventType : npublished < MaxEvents /\ Publish(k)
    \/ \E kind \in EventType \cup {None}, limit \in 0..MaxLimit : GetHistoryCall(kind, limit)

SpecQuery == Init /\ [][NextQuery]_vars

\* the capture source: start() and stop() calls, the capture threads, a few frames
NextAudio ==
    \/ starts < MaxStarts /\ Start
    \/ stops < MaxStops /\ StopBegin
    \/ \E timed_out \in BOOLEAN : StopJoin(timed_out)
    \/ StopClose
    \/ StopTerminate
    \/ StopClear
    \/ \E t \in 1..Len(threads) : \E ok \in BOOLEAN : ThreadInit(t, ok)
    \/ \E t \in 1..Len(threads) : \E ok \in BOOLEAN : ThreadOpen(t, ok)
    \/ \E t \in 1..Len(threads) : ThreadLoop(t)
    \/ \E t \in 1..Len(threads) : \E res \in {"data", "ioerror"}, lr \in BOOLEAN :
          /\ res = "data" => produced < MaxFrames
          /\ ThreadReadEnd(t, res, lr)
    \/ Enqueue
    \/ nread < MaxReads /\ ReadAudioGet

SpecAudio == Init /\ [][NextAudio]_vars

\* one capture session filling the channel past its capacity, with a reader
NextQueue ==
    \/ starts = 0 /\ Start
    \/ \E t \in 1..Len(threads) : ThreadInit(t, TRUE)
    \/ \E t \in 1..Len(threads) : ThreadOpen(t, TRUE)
    \/ \E t \in 1..Len(threads) : ThreadLoop(t)
    \/ \E t \in 1..Len(threads) : \E res \in {"data", "ioerror"} :
          /\ res = "data" => (produced < QUEUE_MAXSIZE + MaxOverflow
                              /\ Len(pending) < MaxPending)
          /\ ThreadReadEnd(t, res, TRUE)
    \/ Enqueue
    \/ nread < MaxReads /\ ReadAudioGet

SpecQueue == Init /\ [][NextQueue]_vars

\* one capture session with a read_audio() consumer: the consumer keeps up with
\* MaxReads frames while the capture runs and drains the channel afterwards;
\* stop() is called early in the session or once the channel has filled up (the
\* device delivers at most MaxLate frames more), and the capture thread may also
\* end by itself when the device does not open
StopPoint == produced <= MaxFrames \/ produced >= QUEUE_MAXSIZE

ReaderStep ==
    \/ ReadAudioCall
    \/ (audio_running => nread < MaxReads) /\ ReadAudioYield
    \/ ReadAudioTimeout
    \/ ReadAudioResume

StopStep ==
    \/ \E timed_out \in BOOLEAN : StopJoin(timed_out)
    \/ StopClose
    \/ StopTerminate
    \/ StopClear

NextRead ==
    \/ starts = 0 /\ Start
    \/ stops = 0 /\ starts = 1 /\ StopPoint /\ StopBegin
    \/ StopStep
    \/ \E t \in 1..Len(threads) : ThreadInit(t, TRUE)
    \/ \E t \in 1..Len(threads) : \E ok \in BOOLEAN :
          (~ok => produced = 0) /\ ThreadOpen(t, ok)
    \/ \E t \in 1..Len(threads) : ThreadLoop(t)
    \/ \E t \in 1..Len(threads) : \E res \in {"data", "ioerror"} :
          /\ res = "data" => (produced < QUEUE_MAXSIZE + MaxLate
                              /\ Len(pending) < MaxPending)
          /\ ThreadReadEnd(t, res, TRUE)
    \/ Enqueue
    \/ ReaderStep

\* the event loop keeps running its ready tasks and timers, and a stop() call
\* goes on (its join is bounded by a timeout)
SpecRead ==
    /\ Init
    /\ [][NextRead]_vars
    /\ WF_vars(ReaderStep)
    /\ WF_vars(StopStep)

\* no create, start_streaming or stop_streaming call is in progress
Quiet ==
    /\ create_pc = "idle"
    /\ start_pc = "idle"
    /\ \A d \in 1..Len(dcalls) : dcalls[d].pc = "done"

\* the stream client driven by one caller that makes its create, start_streaming
\* and stop_streaming calls one after the other, in any order, while another
\* task calls send_audio at any moment and the peer may close the connection
NextStream ==
    \/ Quiet /\ ncalls.create < MaxCreate /\ CreateCall
    \/ CreateResponse([Code |-> "0"])
    \/ CreateStore
    \/ Quiet /\ ncalls.connect < MaxConnect /\ StartStreamingCall
    \/ StartStreamingConnected(TRUE)
    \/ StartStreamingReturn
    \/ ncalls.send < MaxSend /\ SendAudio
    \/ Quiet /\ ncalls.disconnect < MaxDisconnect /\ StopStreamingCall
    \/ \E d \in 1..Len(dcalls) : StopStreamingWake(d)
    \/ \E d \in 1..Len(dcalls) : StopStreamingClose(d)
    \/ \E d \in 1..Len(dcalls) : StopStreamingReturn(d)
    \/ \E t \in 1..Len(rx) : RxClosed(t)
    \/ \E t \in 1..Len(rx) : RxCancelled(t)
    \/ \E c \in 1..Len(conns) : PeerClose(c)

SpecStream == Init /\ [][NextStream]_vars

\* creating the task and connecting: create calls with any response of the
\* remote API and start_streaming calls at any moment
NextCreate ==
    \/ ncalls.create < MaxCreate /\ CreateCall
    \/ \E resp \in Responses : CreateResponse(resp)
    \/ CreateStore
    \/ ncalls.connect < MaxConnect /\ StartStreamingCall
    \/ \E ok \in BOOLEAN : StartStreamingConnected(ok)
    \/ StartStreamingReturn

SpecCreate == Init /\ [][NextCreate]_vars

\* one session of the stream client: the task is created and the connection
\* opened once; stop_streaming is called at any moment (the calls may overlap);
\* the peer sends messages and may close the connection
SessionInbound == {"SentenceEnd", "undecodable"}

StopStreamingStep ==
    \/ \E d \in 1..Len(dcalls) : StopStreamingWake(d)
    \/ \E d \in 1..Len(dcalls) : StopStreamingClose(d)
    \/ \E d \in 1..Len(dcalls) : StopStreamingReturn(d)

ReceiveStep ==
    \/ \E t \in 1..Len(rx) : RxMessage(t)
    \/ \E t \in 1..Len(rx) : RxPublished(t)
    \/ \E t \in 1..Len(rx) : RxFailed(t)
    \/ \E t \in 1..Len(rx) : RxClosed(t)
    \/ \E t \in 1..Len(rx) : RxCancelled(t)

NextSession ==
    \/ ncalls.create = 0 /\ CreateCall
    \/ CreateResponse([Code |-> "0"])
    \/ CreateStore
    \/ ncalls.connect = 0 /\ ~NoMeetingUrl /\ StartStreamingCall
    \/ StartStreamingConnected(TRUE)
    \/ StartStreamingReturn
    \/ ncalls.disconnect < MaxDisconnect /\ StopStreamingCall
    \/ StopStreamingStep
    \/ ReceiveStep
    \/ \E c \in 1..Len(conns) : \E m \in SessionInbound :
          Len(conns[c].arrived) < MaxInbound /\ PeerSend(c, m)
    \/ \E c \in 1..Len(conns) : PeerClose(c)

\* the event loop runs the tasks that are ready: a stop_streaming() call goes on
\* when its sleep or its awaited task or close is over, and the receive task
\* runs when a message, a close or a cancellation is there for it
SpecSession ==
    /\ Init
    /\ [][NextSession]_vars
    /\ WF_vars(StopStreamingStep)
    /\ WF_vars(ReceiveStep)

\* one session of the stream client with a task that calls send_audio at any
\* moment, from before the task is created until after stop_streaming
NextSend ==
    \/ ncalls.create = 0 /\ CreateCall
    \/ CreateResponse([Code |-> "0"])
    \/ CreateStore
    \/ ncalls.connect = 0 /\ ~NoMeetingUrl /\ StartStreamingCall
    \/ StartStreamingConnected(TRUE)
    \/ StartStreamingReturn
    \/ ncalls.send < MaxSend /\ SendAudio
    \/ ncalls.disconnect = 0 /\ StopStreamingCall
    \/ StopStreamingStep
    \/ \E t \in 1..Len(rx) : RxClosed(t)
    \/ \E t \in 1..Len(rx) : RxCancelled(t)
    \/ \E c \in 1..Len(conns) : PeerClose(c)

SpecSend == Init /\ [][NextSend]_vars

\* the receive loop of one session: the peer sends messages of every kind and
\* may close the connection, or the connection is lost; stop_streaming() is
\* called once at any moment
NextReceive ==
    \/ ncalls.create = 0 /\ CreateCall
    \/ CreateResponse([Code |-> "0"])
    \/ CreateStore
    \/ ncalls.connect = 0 /\ ~NoMeetingUrl /\ StartStreamingCall
    \/ StartStreamingConnected(TRUE)
    \/ StartStreamingReturn
    \/ ncalls.disconnect = 0 /\ StopStreamingCall
    \/ StopStreamingStep
    \/ ReceiveStep
    \/ \E c \in 1..Len(conns) : \E m \in Inbound :
          Len(conns[c].arrived) < MaxMessages /\ PeerSend(c, m)
    \/ \E c \in 1..Len(conns) : PeerClose(c)
    \/ \E c \in 1..Len(conns) : ConnectionLost(c)

SpecReceive == Init /\ [][NextReceive]_vars

\* the sentence texts of the events ("": blank), and what the reasoning
\* capability may answer a detection call
Sentences == {"a", "b", ""}
DetectObjects ==
    {[is_question |-> TRUE, confidence |-> 70, question_text |-> "q1", answer |-> "a1"],
     [is_question |-> TRUE, confidence |-> 90, question_text |-> "q2", answer |-> "a2"],
     [is_question |-> TRUE, confidence |-> 70, answer |-> "a0"],
     [is_question |-> TRUE, confidence |-> 65, question_text |-> "q1", answer |-> "a1"],
     [is_question |-> TRUE, question_text |-> "q1", answer |-> "a1"],
     [is_question |-> FALSE, confidence |-> 90, question_text |-> "q1", answer |-> "a1"]}
DetectReplies ==
    {[kind |-> "raise"], [kind |-> "none"], [kind |-> "value", truthy |-> TRUE]}
        \cup {[kind |-> "object", obj |-> o] : o \in DetectObjects}

\* question detection: sentence events arrive at any moment, the detection
\* tasks run one after the other, the reasoning capability answers anything
NextDetect ==
    \/ AIStart
    \/ \E text \in Sentences :
          Len(sentence_buffer) < MaxSentences /\ OnSentenceEnd(text)
    \/ DetectBegin(FALSE)
    \/ \E reply \in DetectReplies : DetectReply(reply, FALSE)
    \/ DetectAnswer
    \/ DetectEnd

SpecDetect == Init /\ [][NextDetect]_vars

\* a speaker who repeats two sentences in turn: from the fifth sentence on the
\* window alternates between two texts; the reasoning capability finds a
\* question, with one of two texts, or none
RecurReplies ==
    {[kind |-> "object", obj |-> o] :
        o \in {[is_question |-> TRUE, confidence |-> 70, question_text |-> "q1", answer |-> "a1"],
               [is_question |-> TRUE, confidence |-> 90, question_text |-> "q2", answer |-> "a2"],
               [is_question |-> FALSE, confidence |-> 90, question_text |-> "q1", answer |-> "a1"]}}

NextRecur ==
    \/ AIStart
    \/ /\ Len(sentence_buffer) < WINDOW + MaxRepeat
       /\ OnSentenceEnd(IF Len(sentence_buffer) % 2 = 0 THEN "a" ELSE "b")
    \/ DetectBegin(FALSE)
    \/ \E reply \in RecurReplies : DetectReply(reply, FALSE)
    \/ DetectAnswer
    \/ DetectEnd

SpecRecur == Init /\ [][NextRecur]_vars

\* the end-to-end run: MaxBoundary sentence events with texts that all differ,
\* and a reasoning capability that finds a question, with high confidence, in
\* the window that ends at the last of them and in no other
SentenceText(n) == "s" \o ToString(n)
LastWindow == [i \in 1..WINDOW |-> SentenceText(MaxBoundary - WINDOW + i)]
Backend(window) ==
    IF window = LastWindow
    THEN [kind |-> "object",
          obj |-> [is_question |-> TRUE, confidence |-> 90,
                   question_text |-> "q", answer |-> "answer to the last window"]]
    ELSE [kind |-> "object",
          obj |-> [is_question |-> FALSE, confidence |-> 90,
                   question_text |-> "", answer |-> ""]]

NextEndToEnd ==
    \/ AIStart
    \/ /\ Len(sentence_buffer) < MaxBoundary
       /\ OnSentenceEnd(SentenceText(Len(sentence_buffer) + 1))
    \/ DetectBegin(TRUE)
    \/ DetectReply(Backend(det.window), TRUE)
    \/ DetectAnswer
    \/ DetectEnd

SpecEndToEnd == Init /\ [][NextEndToEnd]_vars

\* the periodic loop at one wake-up after another, from every state the gates
\* tell apart: the switches, the interval, the age of each time stamp at the
\* next wake-up (0: the gate has never fired) and the length of the buffer
GateConfigs ==
    {[enable_question_detection |-> FALSE, enable_periodic_summary |-> s,
      enable_suggest_questions |-> q, summary_interval_minutes |-> m] :
        s \in BOOLEAN, q \in BOOLEAN, m \in {5, 10}}
GateStamps == {0} \cup {Epoch + SLEEP_SECONDS - e : e \in {30, 299, 300, 301, 599, 600, 601}}
GateLengths == {SUMMARY_MIN_SENTENCES, SUMMARY_MIN_SENTENCES + 1,
                SUGGEST_MIN_SENTENCES, SUGGEST_MIN_SENTENCES + 1}
Delays == {SLEEP_SECONDS, SLEEP_SECONDS + 1}

InitGate ==
    /\ InitPipeline
    /\ InitParser
    /\ InitWire
    /\ config \in GateConfigs
    /\ sentence_buffer \in {[i \in 1..n |-> "a"] : n \in GateLengths}
    /\ ai_running = TRUE
    /\ periodic_pc = "sleep"
    /\ det_waiting = 0
    /\ det = [pc |-> "idle"]
    /\ last_transcript = <<>>
    /\ last_detected_question = ""
    /\ gen_tasks = <<>>
    /\ now = Epoch
    /\ last_summary_time \in GateStamps
    /\ last_suggest_time \in GateStamps
    /\ ai_events = <<>>
    /\ det_log = <<>>
    /\ launches = <<>>
    /\ ai_stop_pc = "idle"
    /\ ai_calls = [start |-> 1, stop |-> 0, ideas |-> 0, wake |-> 0]

NextGate ==
    \E d \in Delays : ai_calls.wake < MaxWakes /\ PeriodicWake(d)

SpecGate == InitGate /\ [][NextGate]_vars

\* the engine from start() to stop(), with a summary every minute: the engine
\* has been started and has heard five or ten sentences before the loop wakes
\* up for the first time; then one more sentence, the periodic loop, the
\* generations in flight, which succeed or fail, and stop() called at any moment
PeriodicConfig == [DefaultConfig EXCEPT !.enable_question_detection = FALSE,
                                        !.summary_interval_minutes = 1]
PeriodicReplies == {[kind |-> "raise"], [kind |-> "object", obj |-> [summary |-> "text"]]}
PeriodicLengths == {SUMMARY_MIN_SENTENCES, SUGGEST_MIN_SENTENCES}

InitPeriodic ==
    /\ InitPipeline
    /\ InitParser
    /\ InitWire
    /\ config = PeriodicConfig
    /\ sentence_buffer \in {[i \in 1..n |-> "a"] : n \in PeriodicLengths}
    /\ ai_running = TRUE
    /\ periodic_pc = "sleep"
    /\ det_waiting = 0
    /\ det = [pc |-> "idle"]
    /\ last_transcript = <<>>
    /\ last_detected_question = ""
    /\ gen_tasks = <<>>
    /\ now = Epoch
    /\ last_summary_time = 0
    /\ last_suggest_time = 0
    /\ ai_events = <<>>
    /\ det_log = <<>>
    /\ launches = <<>>
    /\ ai_stop_pc = "idle"
    /\ ai_calls = [start |-> 1, stop |-> 0, ideas |-> 0, wake |-> 0]

LoopStep == PeriodicCancelled \/ AIStopReturn

NextPeriodic ==
    \/ Len(sentence_buffer) \in PeriodicLengths /\ OnSentenceEnd("a")
    \/ ai_calls.wake < MaxWakes /\ PeriodicWake(SLEEP_SECONDS)
    \/ ai_calls.stop < MaxStops /\ AIStop
    \/ LoopStep
    \/ \E i \in 1..Len(gen_tasks) : GenBegin(i)
    \/ \E i \in 1..Len(gen_tasks) : \E reply \in PeriodicReplies : GenReply(i, reply)

SpecPeriodic == InitPeriodic /\ [][NextPeriodic]_vars /\ WF_vars(LoopStep)

\* the generations with every kind of answer of the reasoning capability: the
\* summary and the suggestion the periodic loop starts, and the ideas asked for
\* by generate_creative_ideas()
GenReplies ==
    {[kind |-> "raise"], [kind |-> "none"], [kind |-> "value", truthy |-> TRUE],
     [kind |-> "object", obj |-> [summary |-> "text"]]}

NextGenerate ==
    \/ AIStart
    \/ Len(sentence_buffer) <= SUGGEST_MIN_SENTENCES /\ OnSentenceEnd("a")
    \/ ai_calls.wake < MaxWakes /\ PeriodicWake(SLEEP_SECONDS)
    \/ ai_calls.ideas < MaxIdeas /\ GenerateCreativeIdeas
    \/ \E i \in 1..Len(gen_tasks) : GenBegin(i)
    \/ \E i \in 1..Len(gen_tasks) : \E reply \in GenReplies : GenReply(i, reply)

SpecGenerate == Init /\ [][NextGenerate]_vars

\* detection and generation side by side. The engine has been started and has
\* heard five sentences, whose detection calls all failed; now more sentences
\* arrive, a summary is due at the first wake-up of the loop, ideas are asked
\* for once, at any moment, and every call of the reasoning capability
\* succeeds or fails
OverlapReplies ==
    {[kind |-> "raise"],
     [kind |-> "object",
      obj |-> [is_question |-> TRUE, confidence |-> 90, question_text |-> "q1",
               answer |-> "a1", summary |-> "text"]]}
Heard(n) == [i \in 1..n |-> SentenceText(i)]

InitOverlap ==
    /\ InitPipeline
    /\ InitParser
    /\ InitWire
    /\ config = DefaultConfig
    /\ sentence_buffer = Heard(SUMMARY_MIN_SENTENCES)
    /\ ai_running = TRUE
    /\ periodic_pc = "sleep"
    /\ det_waiting = 0
    /\ det = [pc |-> "idle"]
    /\ last_transcript = DetectionWindow(Heard(SUMMARY_MIN_SENTENCES))
    /\ last_detected_question = ""
    /\ gen_tasks = <<>>
    /\ now = Epoch
    /\ last_summary_time = 0
    /\ last_suggest_time = 0
    /\ ai_events = <<>>
    /\ det_log = [i \in 1..2 |->
                     [window |-> DetectionWindow(Heard(SUMMARY_MIN_SENTENCES - 2 + i)),
                      called |-> TRUE, reply |-> [kind |-> "raise"],
                      outcome |-> "failed"]]
    /\ launches = <<>>
    /\ ai_stop_pc = "idle"
    /\ ai_calls = [start |-> 1, stop |-> 0, ideas |-> 0, wake |-> 0]

NextOverlap ==
    \/ /\ Len(sentence_buffer) < SUMMARY_MIN_SENTENCES + MaxRepeat
       /\ OnSentenceEnd(SentenceText(Len(sentence_buffer) + 1))
    \/ DetectBegin(TRUE)
    \/ \E reply \in OverlapReplies : DetectReply(reply, TRUE)
    \/ DetectAnswer
    \/ DetectEnd
    \/ ai_calls.wake = 0 /\ PeriodicWake(SLEEP_SECONDS)
    \/ ai_calls.ideas = 0 /\ GenerateCreativeIdeas
    \/ \E i \in 1..Len(gen_tasks) : GenBegin(i)
    \/ \E i \in 1..Len(gen_tasks) : \E reply \in OverlapReplies : GenReply(i, reply)

SpecOverlap == InitOverlap /\ [][NextOverlap]_vars

\* the engine on the bus under any sequence of start() and stop() calls:
\* sentence events, blank or not, are published at any moment, the bus runs the
\* handlers, the detection tasks run (the reasoning capability fails), and
\* every periodic loop that is alive wakes up
NextRestart ==
    \/ ai_calls.start < MaxStarts /\ StartOnBus
    \/ ai_calls.stop < MaxStops /\ AIStop
    \/ LoopStep
    \/ \E text \in {"a", ""} :
          Cardinality(DOMAIN ev_text) < MaxRepeat /\ PublishSentence(text)
    \/ \E p \in 1..Len(pubs) : \E i \in 1..Len(pubs[p].tasks) : SentenceHandler(p, i)
    \/ \E p \in 1..Len(pubs) : PublishReturn(p)
    \/ DetectBegin(FALSE)
    \/ DetectReplyOnBus([kind |-> "raise"], FALSE)
    \/ ai_calls.wake < MaxRepeat /\ PeriodicWake(SLEEP_SECONDS)
    \/ \E k \in 1..Len(old_loops) :
          ai_calls.wake < MaxRepeat /\ OldLoopWake(k, SLEEP_SECONDS)

SpecRestart == Init /\ [][NextRestart]_vars

\* the engine on the bus, started once: handlers of QUESTION_DETECTED are
\* subscribed, sentence events with texts that all differ are published at any
\* moment (also while a handler of QUESTION_DETECTED is suspended, which is
\* what a handler that publishes one itself looks like), the bus runs the
\* handlers, which return, fail or suspend, and the detection tasks run
WiredReplies ==
    {[kind |-> "raise"],
     [kind |-> "object",
      obj |-> [is_question |-> TRUE, confidence |-> 90, question_text |-> "q1",
               answer |-> "a1"]],
     [kind |-> "object",
      obj |-> [is_question |-> TRUE, confidence |-> 90, question_text |-> "q2",
               answer |-> "a2"]],
     [kind |-> "object",
      obj |-> [is_question |-> FALSE, confidence |-> 90, question_text |-> "",
               answer |-> ""]]}

\* the publish call of some sentence event is waiting for its handlers: the
\* receive loop of the transcription awaits each publish call before it reads
\* the next message
SentenceAwaiting ==
    \E p \in 1..Len(pubs) :
        pubs[p].ev.type = SENTENCE_END /\ pubs[p].state = "awaiting"

\* the steps of the bus for a sentence event
SentenceStep ==
    \/ \E p \in 1..Len(pubs) : \E i \in 1..Len(pubs[p].tasks) : SentenceHandler(p, i)
    \/ \E p \in 1..Len(pubs) : pubs[p].ev.type = SENTENCE_END /\ PublishReturn(p)

\* the steps of the handlers of the events the engine publishes
HandlerStep ==
    \/ \E p \in 1..Len(pubs) : \E i \in 1..Len(pubs[p].tasks) : \E beh \in Behaviour :
          pubs[p].tasks[i].h \in HandlerIds /\ HandlerStart(p, i, beh, FALSE)
    \/ \E p \in 1..Len(pubs) : \E i \in 1..Len(pubs[p].tasks) : \E out \in Outcome :
          HandlerResume(p, i, out)
    \/ \E p \in 1..Len(pubs) : pubs[p].ev.type # SENTENCE_END /\ PublishReturn(p)

\* the steps of the detection tasks, the reasoning capability included
DetectionStep ==
    \/ DetectBegin(FALSE)
    \/ \E reply \in WiredReplies : DetectReplyOnBus(reply, FALSE)
    \/ DetectAnswerOnBus
    \/ DetectEndOnBus

NextWired ==
    \/ nreg = 0 /\ Subscribe("QUESTION_DETECTED", "h1")
    \/ nreg = 1 /\ Subscribe("QUESTION_DETECTED", "h2")
    \/ ai_calls.start = 0 /\ nreg = Cardinality(HandlerIds) /\ StartOnBus
    \/ /\ Cardinality(DOMAIN ev_text) < MaxRepeat
       /\ ~SentenceAwaiting
       /\ PublishSentence(SentenceText(Cardinality(DOMAIN ev_text) + 1))
    \/ SentenceStep
    \/ HandlerStep
    \/ DetectionStep

\* the bus does its steps; the reasoning capability may never answer
SpecPublish == Init /\ [][NextWired]_vars /\ WF_vars(SentenceStep)

\* every reasoning call returns or fails, every handler ends
SpecWired ==
    Init /\ [][NextWired]_vars
         /\ WF_vars(SentenceStep) /\ WF_vars(HandlerStep) /\ WF_vars(DetectionStep)

\* _parse_json_response called once with any text of up to MaxTextLen tokens
RECURSIVE TextsOf(_)
TextsOf(n) ==
    IF n = 0 THEN {<<>>}
    ELSE LET shorter == TextsOf(n - 1)
         IN shorter \cup {Append(t, c) : t \in shorter, c \in Tokens}

NextParse ==
    /\ parse_result.kind = "not called"
    /\ \E text \in TextsOf(MaxTextLen) : ParseCall(text)

SpecParse == Init /\ [][NextParse]_vars

(* ====================== claims about the event bus ==================== *)

\* handlers of publish call p started so far that are handler h
Invocations(p, h) ==
    Cardinality({j \in 1..Len(pubs[p].order) : pubs[p].tasks[pubs[p].order[j]].h = h})

PubFinished(p) == pubs[p].state # "awaiting"

\* C1 as stated: when a publish has finished, each handler registered at the
\* time of the call for the event's kind or globally was invoked exactly once,
\* and every other handler was not invoked.
C1_Original ==
    \A p \in 1..Len(pubs) : PubFinished(p) =>
        \A h \in HandlerIds :
            Invocations(p, h) =
                (IF CountOf(pubs[p].regKind, h) + CountOf(pubs[p].regGlobal, h) > 0
                 THEN 1 ELSE 0)

\* C1 (amended): when a publish has finished, each handler was invoked exactly
\* once per registration that matched at the time of the call (its
\* registrations for the event's kind plus its global registrations); a handler
\* registered only for other kinds was not invoked, and before the publish
\* finishes no handler was invoked more often than that.
C1_OncePerRegistration ==
    \A p \in 1..Len(pubs) : \A h \in HandlerIds :
        LET regs == CountOf(pubs[p].regKind, h) + CountOf(pubs[p].regGlobal, h)
        IN /\ Invocations(p, h) <= regs
           /\ PubFinished(p) => Invocations(p, h) = regs

C1_Witness ==
    \E p \in 1..Len(pubs) : \E k \in DOMAIN handlers : \E h \in HandlerIds :
        /\ pubs[p].state = "returned"
        /\ Len(pubs[p].tasks) = 1
        /\ pubs[p].tasks[1].via = "kind"
        /\ Invocations(p, pubs[p].tasks[1].h) = 1
        /\ k # pubs[p].ev.type
        /\ h # pubs[p].tasks[1].h
        /\ CountOf(handlers[k], h) = 1
        /\ Invocations(p, h) = 0

\* C2: a handler that raises an error never makes publish raise, and never
\* keeps a sibling from completing: a publish one of whose handlers raised
\* still returns normally, and when it has returned every handler of it has
\* run to its end, wherever the failing handler sits in the list.
C2_ErrorIsolation ==
    \A p \in 1..Len(pubs) :
        /\ pubs[p].state # "raised"
        /\ \A i \in 1..Len(pubs[p].tasks) : pubs[p].tasks[i].st # "escaped"
        /\ (pubs[p].state = "returned"
            /\ \E i \in 1..Len(pubs[p].tasks) : pubs[p].tasks[i].st = "caught")
              => \A j \in 1..Len(pubs[p].tasks) : pubs[p].tasks[j].st \in {"ok", "caught"}
        /\ (pubs[p].state = "awaiting"
            /\ \A j \in 1..Len(pubs[p].tasks) : pubs[p].tasks[j].st \in {"ok", "caught"})
              => ENABLED PublishReturn(p)

C2_Witness ==
    \E p \in 1..Len(pubs) :
        /\ pubs[p].state = "returned"
        /\ Len(pubs[p].tasks) = 2
        /\ pubs[p].tasks[1].st = "caught"
        /\ pubs[p].tasks[2].st = "ok"

\* C3: publish is a fan-out barrier: while a handler of the call is still
\* pending or suspended the call has not returned; a task a handler spawned
\* detached may still be running after the return.
C3_FanOutBarrier ==
    \A p \in 1..Len(pubs) :
        (\E i \in 1..Len(pubs[p].tasks) : pubs[p].tasks[i].st \in {"pending", "suspended"})
            => pubs[p].state = "awaiting"

C3_Witness ==
    \E p \in 1..Len(pubs) :
        /\ pubs[p].state = "returned"
        /\ Len(pubs[p].tasks) = 2
        /\ pubs[p].ev.id \in detached

\* C4 as stated: within one publish the handlers start in the order of their
\* registration, kind-specific and global registrations alike.
C4_Original ==
    \A p \in 1..Len(pubs) :
        \A a, b \in 1..Len(pubs[p].order) :
            a < b => pubs[p].tasks[pubs[p].order[a]].reg < pubs[p].tasks[pubs[p].order[b]].reg

\* C4 (amended): within one publish every kind-specific handler starts before
\* every global handler, and the handlers of each of the two groups start in
\* the order of their registration (so a global handler registered before a
\* kind-specific one starts after it).
C4_KindThenGlobalOrder ==
    \A p \in 1..Len(pubs) :
        \A a, b \in 1..Len(pubs[p].order) :
            a < b =>
                LET x == pubs[p].tasks[pubs[p].order[a]]
                    y == pubs[p].tasks[pubs[p].order[b]]
                IN /\ ~(x.via = "global" /\ y.via = "kind")
                   /\ x.via = y.via => x.reg < y.reg

C4_Witness ==
    \E p \in 1..Len(pubs) :
        /\ Len(pubs[p].order) = 2
        /\ pubs[p].tasks[pubs[p].order[1]].via = "kind"
        /\ pubs[p].tasks[pubs[p].order[2]].via = "global"
        /\ pubs[p].tasks[pubs[p].order[1]].reg > pubs[p].tasks[pubs[p].order[2]].reg

\* the pairs (kind, handler) whose last unsubscribe was not followed by a
\* subscribe of the same pair
Unsubscribed ==
    {<<unsub_log[i].k, unsub_log[i].h>> : i \in {j \in 1..Len(unsub_log) : unsub_log[j].active}}

C5_NotInvoked ==
    /\ \A p \in 1..Len(pubs) : \A i \in 1..Len(pubs[p].tasks) :
          pubs[p].tasks[i].via = "kind" =>
              <<pubs[p].ev.type, pubs[p].tasks[i].h>> \notin pubs[p].unsubAt
    /\ \A u \in Unsubscribed : CountOf(KindHandlers(u[1]), u[2]) = 0

C5_Frame ==
    Len(unsub_log') = Len(unsub_log) + 1 =>
        LET u == unsub_log'[Len(unsub_log')]
            others(list) == SelectSeq(list, LAMBDA e : e.h # u.h)
        IN /\ global_handlers' = global_handlers
           /\ DOMAIN handlers' = DOMAIN handlers
           /\ \A k \in DOMAIN handlers : k # u.k => handlers'[k] = handlers[k]
           /\ u.k \in DOMAIN handlers =>
                 /\ CountOf(handlers'[u.k], u.h) = 0
                 /\ handlers'[u.k] = others(handlers[u.k])
           /\ (u.k \notin DOMAIN handlers \/ CountOf(KindHandlers(u.k), u.h) = 0)
                 => handlers' = handlers
           /\ pubs' = pubs
           /\ event_history' = event_history

\* C5: unsubscribe(kind, handler) takes every registration of the handler out
\* of the subscribers of that kind, so that a later publish of that kind has no
\* invocation of it for a kind-specific registration (until it is subscribed
\* again); it changes nothing when the kind or the handler is not registered,
\* and it never changes the other handlers of the kind, their order, the other
\* kinds or the global subscribers.
C5_Unsubscribe == []C5_NotInvoked /\ [][C5_Frame]_vars

C5_Witness ==
    \E p \in 1..Len(pubs) : \E i \in 1..Len(unsub_log) :
        /\ unsub_log[i].removed >= 1
        /\ unsub_log[i].k = pubs[p].ev.type
        /\ <<unsub_log[i].k, unsub_log[i].h>> \in pubs[p].unsubAt
        /\ pubs[p].state = "returned"
        /\ Len(pubs[p].tasks) = 1
        /\ pubs[p].tasks[1].via = "kind"
        /\ Len(pubs[p].order) = 1

\* the last n elements of seq (all of it when it is shorter)
LastN(seq, n) == SubSeq(seq, Len(seq) - Min(n, Len(seq)) + 1, Len(seq))

\* C6: the history never holds more than MAX_HISTORY events, and it is always
\* the most recent min(n, MAX_HISTORY) of the n events published so far, in
\* arrival order.
C6_HistoryBounded ==
    /\ Len(event_history) <= MAX_HISTORY
    /\ Len(event_history) = Min(npublished, MAX_HISTORY)
    /\ \A i \in 1..Len(event_history) :
          LET n == npublished - Len(event_history) + i
          IN event_history[i] = [type |-> KindOf(n), id |-> n]

C6_Witness ==
    /\ npublished = MAX_HISTORY + 2
    /\ Len(event_history) = MAX_HISTORY
    /\ event_history[1].id = 3

\* C7 as stated: get_history(kind, limit) returns, for every limit >= 0, the
\* last min(limit, n) of the n retained events that match the filter, in
\* arrival order.
C7_Original ==
    history_result.n > 0 =>
        LET matching == IF history_result.kind = None
                        THEN history_result.before
                        ELSE SelectSeq(history_result.before,
                                       LAMBDA e : e.type = history_result.kind)
        IN history_result.result = LastN(matching, history_result.limit)

(* ==================== claims about the audio capture ================== *)

C8_QueueBound == Len(audio_queue) <= QUEUE_MAXSIZE

C8_Overflow ==
    Len(pending') < Len(pending) =>
        audio_queue' = IF Len(audio_queue) = QUEUE_MAXSIZE
                       THEN Append(Tail(audio_queue), Head(pending))
                       ELSE Append(audio_queue, Head(pending))

\* C8: the audio channel never holds more than QUEUE_MAXSIZE frames; a frame
\* that arrives at a full channel takes the place of exactly one frame, the
\* oldest, and becomes the newest (below capacity it is simply appended): the
\* arriving frame is never the one dropped.
C8_ChannelOverflow == []C8_QueueBound /\ [][C8_Overflow]_vars

C8_Witness ==
    /\ Len(audio_queue) = QUEUE_MAXSIZE
    /\ nread = 0
    /\ audio_queue[1] = 2
    /\ audio_queue[QUEUE_MAXSIZE] = QUEUE_MAXSIZE + 1

C9_StartNoop ==
    (starts' = starts + 1 /\ audio_running) =>
        UNCHANGED <<audio_running, pa, stream, capture_thread, threads, pa_open,
                    stream_open, produced, pending, audio_queue, nread, stops,
                    stop_pc, stopped>>

\* C9: a start() call made while the capture is running spawns no capture
\* thread and changes nothing of the capture's state.
C9_StartIdempotent == [][C9_StartNoop]_vars

C9_Witness ==
    /\ starts = 2
    /\ Len(threads) = 1
    /\ audio_running
    /\ threads[1].pc = "reading"

\* C10 as stated: once stop() has returned (and start() was not called since)
\* the running flag is false and the device handles are released: no PyAudio
\* instance and no stream is held or left open.
C10_Original ==
    stopped =>
        /\ audio_running = FALSE
        /\ pa = NoHandle
        /\ stream = NoHandle
        /\ pa_open = {}
        /\ stream_open = {}

(* ======================= claims about read_audio ====================== *)

ReaderActive == reader_pc \in {"get", "yield"}

\* the capture has stopped: it was started and is not running (it is started once)
CaptureStopped == starts > 0 /\ ~audio_running

\* q2 is q, or q with one frame added at its end
KeptAll(q, q2) ==
    \/ q2 = q
    \/ Len(q2) = Len(q) + 1 /\ SubSeq(q2, 1, Len(q)) = q

\* the generator ends only at a moment when the capture is not running and the
\* channel is empty
C11_EndsDrained ==
    (reader_pc # "done" /\ reader_pc' = "done") =>
        (~audio_running /\ audio_queue = <<>>)

\* each frame yielded is the oldest frame of the channel
C11_QueueOrder ==
    nread' # nread =>
        /\ audio_queue # <<>>
        /\ read_frame' = Head(audio_queue)
        /\ audio_queue' = Tail(audio_queue)

\* a frame leaves the channel unyielded only through the overflow policy
C11_OnlyOverflowDrops ==
    (nread' = nread /\ ~KeptAll(audio_queue, audio_queue')) =>
        /\ Len(audio_queue) = QUEUE_MAXSIZE
        /\ Len(pending) > 0
        /\ audio_queue' = Append(Tail(audio_queue), Head(pending))

\* while the generator is active and the capture has stopped, no frame leaves
\* the channel other than by being yielded
C11_NoFrameLost ==
    (ReaderActive /\ CaptureStopped) =>
        \/ KeptAll(audio_queue, audio_queue')
        \/ /\ nread' = nread + 1
           /\ audio_queue # <<>>
           /\ read_frame' = Head(audio_queue)
           /\ audio_queue' = Tail(audio_queue)

C11_Terminates == (ReaderActive /\ CaptureStopped) ~> (reader_pc = "done")

\* C11 as stated: the sequence of read_audio() ends once the capture has stopped
\* and the channel is empty, not earlier, and every frame that is in the channel
\* when the capture stops is yielded, in queue order, before the sequence ends.
C11_Original ==
    /\ [][C11_EndsDrained /\ C11_QueueOrder /\ C11_NoFrameLost]_vars
    /\ C11_Terminates

\* C11: the sequence of read_audio() ends once the capture has stopped and the
\* channel is empty, and not earlier; frames are yielded in queue order; a frame
\* that is in the channel when the capture stops is yielded before the sequence
\* ends unless the overflow policy evicts it for a frame that the capture thread
\* handed over before it stopped and that reaches a full channel afterwards.
C11_ReadAudio ==
    /\ [][C11_EndsDrained /\ C11_QueueOrder /\ C11_OnlyOverflowDrops]_vars
    /\ C11_Terminates

C11_Witness ==
    /\ reader_pc = "done"
    /\ read_stopped >= 1
    /\ ~audio_running
    /\ audio_queue = <<>>

(* ===================== claims about the stream client ================= *)

Count(seq, x) == Cardinality({i \in 1..Len(seq) : seq[i] = x})

\* the protocol state of the client, read off its fields and its transport
SessionState ==
    IF ws # NoHandle
    THEN IF ~client_running \/ Count(conns[ws].sent, "stop") > 0 THEN "Stopping"
         ELSE IF Count(conns[ws].sent, "audio") > 0 THEN "Streaming"
         ELSE "Connected"
    ELSE IF Len(conns) > 0 THEN "Closed"
    ELSE IF meeting_join_url # NoHandle THEN "TaskCreated"
    ELSE "Idle"

Rank(st) ==
    CASE st = "Idle" -> 0
      [] st = "TaskCreated" -> 1
      [] st = "Connected" -> 2
      [] st = "Streaming" -> 3
      [] st = "Stopping" -> 4
      [] st = "Closed" -> 5

CreateCalled == ncalls'.create = ncalls.create + 1
ConnectCalled == ncalls'.connect = ncalls.connect + 1
SendCalled == ncalls'.send = ncalls.send + 1
DisconnectCalled == ncalls'.disconnect = ncalls.disconnect + 1

C12_Forward == Rank(SessionState') >= Rank(SessionState)

C12_IllegalFails ==
    /\ (ConnectCalled /\ SessionState # "TaskCreated") =>
          /\ last_op'.op = "connect" /\ last_op'.result = "error"
          /\ UNCHANGED <<ws, client_running, receive_task, conns, rx, start_pc>>
    /\ (CreateCalled /\ SessionState # "Idle") =>
          /\ last_op'.op = "create" /\ last_op'.result = "error"
          /\ UNCHANGED <<task_id, meeting_join_url, create_pc>>

\* C12 as stated: the session state only moves forward along Idle, TaskCreated,
\* Connected, Streaming, Stopping, Closed, and a connect() that is called in
\* another state than TaskCreated, or a createSession() that is called while a
\* session exists, fails at once and leaves the state, the transport and the
\* receive loop as they are.
C12_Original == [][C12_Forward /\ C12_IllegalFails]_vars

C13_Response ==
    (create_pc = "request" /\ create_pc' # "request") =>
        IF create_resp'.Code # "0"
        THEN /\ create_pc' = "idle"
             /\ last_op'.op = "create" /\ last_op'.result = "error"
             /\ "Message" \in DOMAIN create_resp' => last_op'.msg = create_resp'.Message
             /\ UNCHANGED <<task_id, meeting_join_url>>
             /\ SessionState = "Idle" => SessionState' = "Idle"
        ELSE create_pc' = "store"

C13_Success ==
    (create_pc = "store" /\ create_pc' = "idle") =>
        /\ last_op' = [op |-> "create", result |-> "ok", msg |-> ""]
        /\ create_resp.Code = "0"
        /\ task_id' = ncalls.create
        /\ meeting_join_url' = ncalls.create

C13_Together ==
    create_pc = "idle" => task_id = meeting_join_url

\* C13: a create call that gets a non-success answer from the remote API ends
\* with an error that carries the remote message and stores nothing: task id and
\* stream endpoint stay as they were, and an Idle client stays Idle; a call that
\* gets a success answer stores the task id and the stream endpoint of that
\* task, and outside a create call the two are always of the same task.
C13_CreateSession == []C13_Together /\ [][C13_Response /\ C13_Success]_vars

C13_Witness ==
    /\ last_op = [op |-> "create", result |-> "error", msg |-> "Forbidden"]
    /\ create_resp = [Code |-> "403", Message |-> "Forbidden"]
    /\ create_pc = "idle"
    /\ task_id = NoHandle
    /\ meeting_join_url = NoHandle

C14_Refused ==
    (ConnectCalled /\ meeting_join_url = NoHandle) =>
        /\ last_op'.op = "connect" /\ last_op'.result = "error"
        /\ start_pc' = "idle"
        /\ UNCHANGED <<ws, client_running, receive_task, conns, rx, tw_events>>

\* C14: a start_streaming() call made while no create call has returned
\* successfully (no stream endpoint is stored) raises an error: it opens no
\* connection, sends no start message, creates no receive task and publishes
\* no event.
C14_ConnectBeforeCreate == [][C14_Refused]_vars

C14_Witness ==
    /\ last_op.op = "connect" /\ last_op.result = "error" /\ last_op.msg = "no task"
    /\ ncalls.create > 0
    /\ meeting_join_url = NoHandle
    /\ conns = <<>> /\ rx = <<>> /\ tw_events = <<>>

\* C15 as stated: send_audio forwards the frame to the transport only in the
\* states Connected and Streaming; in Idle, TaskCreated, Stopping (from the stop
\* message on) and Closed it sends nothing.
C15_Original ==
    [][(SendCalled /\ conns' # conns) => SessionState \in {"Connected", "Streaming"}]_vars

C16_NoopWhenClosed ==
    (DisconnectCalled /\ SessionState \in {"Idle", "TaskCreated", "Closed"}) =>
        /\ last_op' = [op |-> "disconnect", result |-> "noop", msg |-> ""]
        /\ UNCHANGED <<task_id, meeting_join_url, ws, client_running, receive_task,
                       conns, rx, tw_events, create_pc, start_pc, dcalls>>

C16_NoStopAfterGrace ==
    \A d \in 1..Len(dcalls) :
        dcalls[d].pc # "sleep" =>
            Count(conns'[dcalls[d].conn].sent, "stop")
                = Count(conns[dcalls[d].conn].sent, "stop")

C16_AtMostOnePerCall ==
    \A c \in 1..Len(conns) :
        Count(conns[c].sent, "stop")
            <= Cardinality({d \in 1..Len(dcalls) : dcalls[d].conn = c})

C20_Original ==
    \A c \in 1..Len(conns) :
        /\ conns[c].sent[1] = "start"
        /\ \A i, j \in 1..Len(conns[c].sent) :
              (i < j /\ conns[c].sent[i] = "stop") => conns[c].sent[j] # "audio"

C17_Terminates ==
    \A d \in 1..MaxDisconnect :
        (Len(dcalls) >= d) ~> (Len(dcalls) >= d /\ dcalls[d].pc = "done")

C17_AtReturn ==
    \A d \in 1..Len(dcalls) :
        (dcalls[d].pc # "done" /\ dcalls'[d].pc = "done") =>
            /\ ws' = NoHandle
            /\ conns'[dcalls[d].conn].st = "closed"
            /\ \A t \in 1..Len(rx') : rx'[t].pc = "done"

C17_Silent ==
    (\E d \in 1..Len(dcalls) : dcalls[d].pc = "done") => tw_events' = tw_events

C17_GracePublished ==
    \A c \in 1..Len(conns) :
        LET n == conns[c].nrecv + 1
        IN (conns'[c].nrecv = n /\ InGrace /\ conns[c].arrived[n] \in KnownNames) =>
               tw_events' = Append(tw_events, [type |-> EventFor(conns[c].arrived[n]),
                                               conn |-> c, msg |-> n, grace |-> TRUE])

\* C17: in a session that was connected once, every stop_streaming() call that
\* finds the client connected and running returns, also when the send of the
\* stop message fails because the peer has closed the connection; when it
\* returns the receive task has ended, the connection is closed and self._ws
\* is None, and the client publishes no event afterwards; a message of a known
\* name that the receive loop takes during the grace period is published.
C17_Disconnect ==
    /\ [][C17_AtReturn /\ C17_Silent /\ C17_GracePublished]_vars
    /\ C17_Terminates

C17_Witness ==
    /\ \E d \in 1..Len(dcalls) : dcalls[d].pc = "done"
    /\ \E i \in 1..Len(tw_events) : tw_events[i].grace /\ tw_events[i].msg > 0
    /\ rx[1].how = "cancelled"
    /\ conns[1].st = "closed"
    /\ ws = NoHandle

\* the events the receive loop published for messages of connection c
MessageEvents(c) == SelectSeq(tw_events, LAMBDA e : e.conn = c /\ e.msg > 0)

\* the messages of connection c that the receive loop has taken and that carry
\* one of the six names
TakenKnown(c) == {n \in 1..conns[c].nrecv : conns[c].arrived[n] \in KnownNames}

C18_OnePerMessage ==
    \A c \in 1..Len(conns) :
        LET evs == MessageEvents(c)
        IN /\ Len(evs) = Cardinality(TakenKnown(c))
           /\ \A i \in 1..Len(evs) :
                 /\ evs[i].msg \in TakenKnown(c)
                 /\ evs[i].type = EventFor(conns[c].arrived[evs[i].msg])
           /\ \A i, j \in 1..Len(evs) : i < j => evs[i].msg < evs[j].msg

C18_OthersIgnored ==
    \A c \in 1..Len(conns) :
        LET n == conns[c].nrecv + 1
        IN (conns'[c].nrecv = n /\ conns[c].arrived[n] \in {"Unknown", "binary"}
              /\ client_running) =>
               (tw_events' = tw_events /\ rx' = rx)

\* C18: for each text message the receive loop takes whose name is SentenceBegin,
\* TranscriptionResultChanged, SentenceEnd, ResultTranslated,
\* TranscriptionCompleted or TaskFailed it publishes exactly one event, of the
\* type that belongs to the name, and these events are in the order of the
\* messages; a message with another name and a binary message publish nothing
\* and leave the loop waiting for the next message.
C18_Demultiplex == []C18_OnePerMessage /\ [][C18_OthersIgnored]_vars

C18_Witness ==
    /\ Len(conns) = 1
    /\ conns[1].arrived = <<"Unknown", "SentenceEnd">>
    /\ conns[1].nrecv = 2
    /\ Len(tw_events) = 2
    /\ tw_events[2].type = "TRANSCRIPTION_SENTENCE_END"
    /\ tw_events[2].msg = 2
    /\ rx[1].pc = "recv"

\* the receive loop of task t ends, without having been cancelled, because the
\* connection ended in the way "how"
LoopEndsOn(t, how) ==
    /\ rx[t].pc = "recv" /\ rx'[t].pc # "recv" /\ ~rx[t].cancelled
    /\ conns[rx[t].conn].st = how
    /\ ReceiveEnds(conns[rx[t].conn])

\* the step appends exactly one TRANSCRIPTION_ERROR event and the loop of task t
\* is ending
ReportsFailure(t) ==
    /\ Len(tw_events') = Len(tw_events) + 1
    /\ tw_events'[Len(tw_events')].type = "TRANSCRIPTION_ERROR"
    /\ tw_events'[Len(tw_events')].msg = 0
    /\ rx'[t].pc = "error"

C19_CloseIsSilent ==
    \A t \in 1..Len(rx) :
        LoopEndsOn(t, "peer_closed") => (tw_events' = tw_events /\ rx'[t].pc = "done")

C19_UndecodableReported ==
    \A t \in 1..Len(rx) :
        LET c == rx[t].conn
            n == conns[c].nrecv + 1
        IN (conns'[c].nrecv = n /\ conns[c].arrived[n] = "undecodable" /\ client_running) =>
               ReportsFailure(t)

C19_LossReported ==
    \A t \in 1..Len(rx) : LoopEndsOn(t, "lost") => ReportsFailure(t)

C19_EndIsFinal ==
    \A t \in 1..Len(rx) :
        rx[t].pc \in {"error", "done"} =>
            /\ rx'[t].pc \in {"error", "done"}
            /\ tw_events' = tw_events

\* C19 as stated: a close by the peer ends the receive loop and publishes
\* nothing; every other failure in the loop, a message that cannot be decoded
\* and the loss of the connection among them, publishes exactly one
\* TRANSCRIPTION_ERROR event and ends the loop; after the end of the loop no
\* further event is published.
C19_Original ==
    [][C19_CloseIsSilent /\ C19_UndecodableReported /\ C19_LossReported /\ C19_EndIsFinal]_vars

\* what the code does about C19: all of it except the report of a lost connection
C19_WithoutLoss ==
    [][C19_CloseIsSilent /\ C19_UndecodableReported /\ C19_EndIsFinal]_vars

(* ================== claims about the analysis engine ================== *)
\* the events of one type the engine has published
EngineEvents(type) == SelectSeq(ai_events, LAMBDA e : e.type = type)

\* the detection runs with the given outcome, as indices of det_log
RunsWith(outcome) == {i \in 1..Len(det_log) : det_log[i].outcome = outcome}

C21_SecondSkipped ==
    \A i \in 1..Len(det_log) :
        LET same == i > 1 /\ det_log[i].window = det_log[i - 1].window
        IN /\ same => (~det_log[i].called /\ det_log[i].outcome = "skipped")
           /\ ~same => det_log[i].called

C21_SkipIsSilent ==
    (Len(det_log') = Len(det_log) + 1 /\ det_log'[Len(det_log')].outcome = "skipped")
        => (ai_events' = ai_events /\ det' = det)

\* C21: of two detection runs in direct succession that build the same window,
\* the first calls the reasoning capability and the second does not: it returns
\* at once, publishes nothing and leaves the lock free.
C21_SameWindowOnce == []C21_SecondSkipped /\ [][C21_SkipIsSilent]_vars

C21_Witness ==
    /\ Len(det_log) = 2
    /\ det_log[1].window = <<"a", "b">>
    /\ det_log[1].outcome = "published"
    /\ det_log[2].window = <<"a", "b">>
    /\ det_log[2].outcome = "skipped"
    /\ Len(ai_events) = 2

\* the reply is an object with is_question true and a confidence of at least 0.7
Positive(reply) ==
    /\ reply.kind = "object"
    /\ "is_question" \in DOMAIN reply.obj /\ reply.obj.is_question
    /\ "confidence" \in DOMAIN reply.obj /\ reply.obj.confidence >= 70

\* the question text of a positive reply ("" when it has none)
TextOf(reply) ==
    IF "question_text" \in DOMAIN reply.obj THEN reply.obj.question_text ELSE ""

\* i and j are positive detections with no positive detection between them
AdjacentPositive(i, j) ==
    /\ i < j
    /\ det_log[i].called /\ Positive(det_log[i].reply)
    /\ det_log[j].called /\ Positive(det_log[j].reply)
    /\ \A k \in (i + 1)..(j - 1) : ~(det_log[k].called /\ Positive(det_log[k].reply))

\* C23 as stated: of two positive detections in direct succession with the same
\* question text, the empty and the missing text included, the second publishes
\* nothing, so that the two give one QUESTION_DETECTED / ANSWER_GENERATED pair.
C23_Original ==
    \A i, j \in 1..Len(det_log) :
        (AdjacentPositive(i, j) /\ TextOf(det_log[i].reply) = TextOf(det_log[j].reply))
            => det_log[j].outcome = "suppressed"

\* what the code does about C23: the same for a question text that is not empty
C23_NonEmpty ==
    \A i, j \in 1..Len(det_log) :
        (AdjacentPositive(i, j) /\ TextOf(det_log[i].reply) = TextOf(det_log[j].reply)
            /\ TextOf(det_log[j].reply) # "")
            => det_log[j].outcome = "suppressed"

C24_OnlyPositive ==
    \A i \in 1..Len(det_log) :
        det_log[i].outcome \in {"published", "suppressed"}
            <=> (det_log[i].called /\ Positive(det_log[i].reply))

C24_EventsOfPublished ==
    /\ Len(EngineEvents("QUESTION_DETECTED")) = Cardinality(RunsWith("published"))
    /\ Len(EngineEvents("ANSWER_GENERATED")) <= Cardinality(RunsWith("published"))
    /\ \A i \in 1..Len(ai_events) :
          ai_events[i].type \in {"QUESTION_DETECTED", "ANSWER_GENERATED"}

\* C24: a detection run publishes only when the reply decoded to an object whose
\* is_question is true and whose confidence is at least 0.70; every such reply,
\* the one with confidence exactly 0.70 included, is published unless it is
\* suppressed as a duplicate; a confidence of 0.65, a missing confidence, a
\* false is_question, a reply that does not decode and a failed call publish
\* nothing.
C24_Threshold == []C24_OnlyPositive /\ []C24_EventsOfPublished

C24_Witness ==
    /\ Len(det_log) = 2
    /\ det_log[1].reply.kind = "object"
    /\ Get(det_log[1].reply.obj, "confidence", 0) = 65
    /\ det_log[1].outcome = "rejected"
    /\ det_log[2].reply.kind = "object"
    /\ Get(det_log[2].reply.obj, "confidence", 0) = 70
    /\ det_log[2].outcome = "published"
    /\ Len(ai_events) = 2

\* C22 as stated: no window text is forwarded twice, also when it comes back
\* after another window.
C22_Original ==
    \A i, j \in RunsWith("published") : i < j => det_log[i].window # det_log[j].window

\* C22: a window text is forwarded at most once in a row: between two detection
\* runs that publish for the same window text there is a run with another
\* window. A window text that comes back after another one is analysed again
\* and can be forwarded again.
C22_OncePerRun ==
    \A i, j \in RunsWith("published") :
        (i < j /\ det_log[i].window = det_log[j].window)
            => \E k \in (i + 1)..(j - 1) : det_log[k].window # det_log[i].window

C22_Witness ==
    \E i, j \in RunsWith("published") :
        /\ i + 2 = j
        /\ det_log[i].window = det_log[j].window
        /\ Len(det_log[i].window) = WINDOW
        /\ det_log[i + 1].window # det_log[i].window
        /\ Len(EngineEvents("QUESTION_DETECTED")) >= 2

\* every sentence event has arrived and every detection task has finished
DetectionQuiet ==
    /\ Len(sentence_buffer) = MaxBoundary
    /\ det_waiting = 0
    /\ det.pc = "idle"

C29_AtMostOne ==
    /\ Len(EngineEvents("QUESTION_DETECTED")) <= 1
    /\ \A i \in 1..Len(ai_events) :
          /\ ai_events[i].window = LastWindow
          /\ ai_events[i].answer = Backend(LastWindow).obj.answer

C29_OneAtTheEnd ==
    DetectionQuiet =>
        /\ Len(EngineEvents("QUESTION_DETECTED")) = 1
        /\ Len(EngineEvents("ANSWER_GENERATED")) = 1

\* C29: with detection enabled, MaxBoundary sentence events with different texts
\* and a reasoning capability that is positive for the window ending at the last
\* sentence only, no interleaving of the events with the detection tasks
\* publishes a QUESTION_DETECTED event for another window or a second one, and
\* once every task has finished exactly one has been published, with the
\* answer given for that window.
C29_EndToEnd == []C29_AtMostOne /\ []C29_OneAtTheEnd

C29_Witness ==
    /\ DetectionQuiet
    /\ Len(EngineEvents("QUESTION_DETECTED")) = 1
    /\ det_log[Len(det_log)].outcome = "skipped"
    /\ det_log[Len(det_log) - 1].outcome = "published"

\* the number of generation tasks of one kind among tasks
GenCount(tasks, kind) == Cardinality({i \in 1..Len(tasks) : tasks[i].kind = kind})

\* the step is a wake-up of the periodic loop
WakeStep == ai_calls'.wake = ai_calls.wake + 1

\* the number of tasks of one kind the step launches
Launched(kind) == GenCount(gen_tasks', kind) - GenCount(gen_tasks, kind)

C25_Gates ==
    WakeStep =>
        LET n == Len(sentence_buffer)
            summary == /\ config.enable_periodic_summary
                       /\ now' - last_summary_time >= 60 * config.summary_interval_minutes
                       /\ n > 5
            suggest == /\ config.enable_suggest_questions
                       /\ now' - last_suggest_time >= 300
                       /\ n > 10
        IN /\ Launched("summary") = (IF summary THEN 1 ELSE 0)
           /\ Launched("suggest") = (IF suggest THEN 1 ELSE 0)
           /\ Len(gen_tasks') = Len(gen_tasks) + Launched("summary") + Launched("suggest")

C25_Example ==
    (/\ WakeStep
     /\ config.enable_periodic_summary
     /\ config.summary_interval_minutes = 10
     /\ Len(sentence_buffer) = 6) =>
        /\ now' - last_summary_time = 599 =>
              (gen_tasks' = gen_tasks /\ last_summary_time' = last_summary_time)
        /\ now' - last_summary_time = 600 =>
              /\ Len(gen_tasks') = Len(gen_tasks) + 1
              /\ gen_tasks'[Len(gen_tasks')].kind = "summary"
              /\ last_summary_time' = now'

\* C25: at every wake-up of the periodic loop a summary task is launched exactly
\* when summaries are enabled, the clock is at least the configured interval
\* past the summary time stamp and the buffer holds more than 5 sentences, and
\* a suggestion task exactly when suggestions are enabled, the clock is at least
\* 300 s past the suggestion time stamp and the buffer holds more than 10
\* sentences, each whatever the other gate does; with an interval of 600 s and
\* 6 sentences nothing is launched 599 s after the stamp, and one summary and
\* nothing else 600 s after it, with the stamp set to the clock.
C25_PeriodicGates == [][C25_Gates /\ C25_Example]_vars

C25_Witness ==
    /\ config.summary_interval_minutes = 10
    /\ Len(sentence_buffer) = 6
    /\ ai_calls.wake = 1
    /\ Len(launches) = 1
    /\ launches[1].gate = "summary"
    /\ launches[1].at - launches[1].prev = 600
    /\ launches[1].at = now
    /\ Len(gen_tasks) = 1
    /\ last_summary_time = now

\* the interval of a gate, in seconds
IntervalOf(gate) ==
    IF gate = "summary" THEN 60 * config.summary_interval_minutes ELSE 300

C26_StampWithLaunch ==
    /\ Launched("summary") > 0 <=> last_summary_time' # last_summary_time
    /\ Launched("suggest") > 0 <=> last_suggest_time' # last_suggest_time
    /\ Launched("summary") > 0 => last_summary_time' = now'
    /\ Launched("suggest") > 0 => last_suggest_time' = now'
    /\ \A i \in (Len(gen_tasks) + 1)..Len(gen_tasks') :
          gen_tasks'[i].pc = "created" /\ gen_tasks'[i].at = now'

C26_Spacing ==
    \A i, j \in 1..Len(launches) :
        (i < j /\ launches[i].gate = launches[j].gate)
            => launches[j].at - launches[i].at >= IntervalOf(launches[i].gate)

\* C26: the step that launches the generation task of a gate sets the time stamp
\* of the gate to the clock reading of that step, while the task has not yet
\* run, and the stamp changes in no other step; two launches of one gate are
\* at least the interval of the gate apart, whether the earlier generation has
\* finished, is in flight or has failed.
C26_StampBeforeWork == [][C26_StampWithLaunch]_vars /\ []C26_Spacing

C26_Witness ==
    \E i, j \in 1..Len(gen_tasks) :
        /\ i < j
        /\ gen_tasks[i].kind = "summary" /\ gen_tasks[j].kind = "summary"
        /\ gen_tasks[i].reply.kind = "raise"
        /\ gen_tasks[j].pc = "llm"
        /\ gen_tasks[j].at - gen_tasks[i].at >= 60
        /\ \E k \in 1..Len(gen_tasks) : gen_tasks[k].kind = "suggest" /\ gen_tasks[k].pc = "llm"

\* the generations that have ended on a failure of the reasoning capability: an
\* error raised, a response that does not decode, a response that is no object
FailedGenerations ==
    {i \in 1..Len(gen_tasks) :
        gen_tasks[i].pc = "done" /\ gen_tasks[i].reply.kind \in {"raise", "none", "value"}}

\* C27 as stated, for the summary, suggestion and idea generation: a failed
\* call publishes no event, and the periodic loop keeps running.
C27_Original ==
    /\ \A i \in FailedGenerations : ~gen_tasks[i].published
    /\ ai_calls.start > 0 => periodic_pc = "sleep"

\* what the code does about C27: the same without the response that is no
\* object
C27_Absorbed ==
    /\ \A i \in FailedGenerations :
          gen_tasks[i].reply.kind \in {"raise", "none"} => ~gen_tasks[i].published
    /\ Len(ai_events) = Cardinality({i \in 1..Len(gen_tasks) : gen_tasks[i].published})
    /\ ai_calls.start > 0 => periodic_pc = "sleep"

C28_AfterReturn ==
    ai_stop_pc = "returned" => (~ai_running /\ periodic_pc \in {"none", "done"})

C28_NoFireAfterReturn ==
    (ai_stop_pc = "returned" /\ ai_stop_pc' = "returned")
        => (launches' = launches /\ last_summary_time' = last_summary_time
              /\ last_suggest_time' = last_suggest_time
              /\ Len(gen_tasks') = Len(gen_tasks))

C28_TasksLeftAlone ==
    (ai_calls'.stop # ai_calls.stop \/ ai_stop_pc' # ai_stop_pc
        \/ (periodic_pc = "cancelling" /\ periodic_pc' = "done"))
        => (gen_tasks' = gen_tasks /\ ai_events' = ai_events)

C28_Returns == (ai_stop_pc = "await") ~> (ai_stop_pc = "returned")

\* C28: a stop() call that waits for the periodic loop returns; while stop() has
\* returned the running flag is false, the periodic loop has ended (or never
\* existed) and no gate fires; no step of stop() or of the ending loop touches
\* the generation tasks, so that a task in flight gets its answer and publishes
\* after stop() returned.
C28_Stop ==
    /\ []C28_AfterReturn
    /\ [][C28_NoFireAfterReturn /\ C28_TasksLeftAlone]_vars
    /\ C28_Returns

C28_Witness ==
    /\ ai_stop_pc = "returned"
    /\ periodic_pc = "done"
    /\ \E i \in 1..Len(gen_tasks) : gen_tasks[i].published /\ gen_tasks[i].after_stop
    /\ \E i \in 1..Len(gen_tasks) : gen_tasks[i].pc = "llm"

(* ===================== claims about the parser ======================= *)
\* the text without the white space around it, without the fence (alone or
\* followed by json) it starts with and without the fence it ends with
RECURSIVE Trimmed(_)
Trimmed(t) ==
    IF t = <<>> THEN t
    ELSE IF Head(t) = " " THEN Trimmed(Tail(t))
    ELSE IF t[Len(t)] = " " THEN Trimmed([i \in 1..(Len(t) - 1) |-> t[i]])
    ELSE t

Unfenced(t) ==
    LET body == IF t # <<>> /\ Head(t) = "fence"
                THEN (IF Tail(t) # <<>> /\ Head(Tail(t)) = "json"
                      THEN Tail(Tail(t)) ELSE Tail(t))
                ELSE t
    IN IF body # <<>> /\ body[Len(body)] = "fence"
       THEN [i \in 1..(Len(body) - 1) |-> body[i]] ELSE body

CoreOf(text) == Trimmed(Unfenced(Trimmed(text)))

\* the part of the text from its first "{" to its last "}" (<<>>: there is none)
Braced(t) ==
    LET opens == {i \in 1..Len(t) : t[i] = "{"}
        closes == {i \in 1..Len(t) : t[i] = "}"}
    IN IF opens = {} \/ closes = {} THEN <<>>
       ELSE LET first == CHOOSE i \in opens : \A j \in opens : i <= j
                last == CHOOSE i \in closes : \A j \in closes : j <= i
            IN IF first < last THEN [i \in 1..(last - first + 1) |-> t[first + i - 1]]
               ELSE <<>>

C36_Original ==
    \A i \in 1..Len(launches) :
        launches[i].at - Epoch >= IntervalOf(launches[i].gate)

\* what the code does: the first launch of each gate is measured against the
\* time stamp 0 of __init__, every later one against the previous launch
C36_FromLastStamp ==
    \A i \in 1..Len(launches) :
        /\ launches[i].at - launches[i].prev >= IntervalOf(launches[i].gate)
        /\ (\A j \in 1..(i - 1) : launches[j].gate # launches[i].gate)
              => launches[i].prev = 0

(* ============ claims about the engine's concurrent tasks ============= *)
\* the step lets a waiting detection task into the block of the lock
EntersBlock == det_waiting' = det_waiting - 1

\* the step is a step of the detection run inside the block: it changes what
\* only that run writes
DetectionWrites ==
    \/ last_transcript' # last_transcript
    \/ last_detected_question' # last_detected_question
    \/ det_log' # det_log
    \/ \E type \in {"QUESTION_DETECTED", "ANSWER_GENERATED"} :
          Len(SelectSeq(ai_events', LAMBDA e : e.type = type))
              # Len(SelectSeq(ai_events, LAMBDA e : e.type = type))

C31_OneInside ==
    /\ EntersBlock => det.pc = "idle"
    /\ (DetectionWrites /\ ~EntersBlock) => det.pc # "idle"
    /\ (det.pc # "idle" /\ det'.pc # "idle") => det'.window = det.window

\* C31: a detection task enters the block of the lock only while no detection
\* run is inside it, and until the run inside has left, its window stays what
\* it was and nothing but that run writes the detection state or publishes a
\* detection event; the generations are not held by the lock.
C31_Mutex == [][C31_OneInside]_vars

\* a detection run, a summary and an idea generation all wait for the
\* reasoning capability at once, while another detection task waits for the lock
C31_Witness ==
    /\ det.pc = "llm"
    /\ det_waiting > 0
    /\ \E i, j \in 1..Len(gen_tasks) :
          /\ gen_tasks[i].kind = "summary" /\ gen_tasks[i].pc = "llm"
          /\ gen_tasks[j].kind = "ideas" /\ gen_tasks[j].pc = "llm"

\* the buffer is only ever extended by one sentence at its end, in a step that
\* is no step of a detection or generation task
C33_AppendOnly ==
    sentence_buffer' # sentence_buffer =>
        /\ Len(sentence_buffer') = Len(sentence_buffer) + 1
        /\ SubSeq(sentence_buffer', 1, Len(sentence_buffer)) = sentence_buffer
        /\ det' = det /\ gen_tasks' = gen_tasks /\ ai_events' = ai_events
        /\ last_transcript' = last_transcript

\* a task takes its text at its first step, from the buffer as it is then, and
\* keeps it while it waits for the reasoning capability
C33_WindowKept ==
    /\ \A i \in 1..Len(gen_tasks) :
          /\ (gen_tasks[i].pc = "created" /\ gen_tasks'[i].pc = "llm")
                => \E n \in {SUMMARY_WINDOW, SUGGEST_WINDOW, IDEAS_WINDOW} :
                      gen_tasks'[i].window = PySliceFrom(sentence_buffer, 0 - n)
          /\ gen_tasks[i].pc = "llm" => gen_tasks'[i].window = gen_tasks[i].window
    /\ (det.pc = "idle" /\ det'.pc = "llm")
          => det'.window = PySliceFrom(sentence_buffer, 0 - Min(WINDOW, Len(sentence_buffer)))
    /\ (det.pc = "llm" /\ det'.pc # "idle") => det'.window = det.window

\* an event carries the text its run took at its first step
C33_PublishedText ==
    Len(ai_events') = Len(ai_events) + 1 =>
        LET e == ai_events'[Len(ai_events')]
        IN IF e.type \in {"QUESTION_DETECTED", "ANSWER_GENERATED"}
           THEN e.window = det.window
           ELSE \E i \in 1..Len(gen_tasks) :
                   /\ gen_tasks[i].pc = "llm" /\ gen_tasks'[i].pc = "done"
                   /\ e.window = gen_tasks[i].window

Handles(p) ==
    /\ npublished' = npublished
    /\ pubs[p].ev.type = SENTENCE_END
    /\ \E i \in 1..Len(pubs[p].tasks) :
          pubs[p].tasks[i].st = "pending" /\ pubs'[p].tasks[i].st # "pending"
HandlesAfterStop ==
    \E p \in 1..Len(pubs) : Handles(p) /\ ev_text[pubs[p].ev.id].after_stop

\* C34 as stated: a sentence event published after stop() has returned starts
\* no detection task.
C34_Original == [][HandlesAfterStop => det_waiting' = det_waiting]_vars

\* what the code does for such an event: the handler is still subscribed and
\* does not look at _running, so an event whose text is not blank is appended
\* and gets its detection task
C34_StillHandled ==
    [][HandlesAfterStop =>
          \E p \in 1..Len(pubs) :
              /\ Handles(p)
              /\ IF ev_text[pubs[p].ev.id].text = ""
                 THEN sentence_buffer' = sentence_buffer /\ det_waiting' = det_waiting
                 ELSE /\ sentence_buffer' = Append(sentence_buffer, ev_text[pubs[p].ev.id].text)
                      /\ det_waiting' = det_waiting + 1]_vars

\* the sentence events with a text that is not blank, the detection tasks
\* launched so far, and the periodic loops that are alive
NonBlankEvents == {id \in DOMAIN ev_text : ev_text[id].text # ""}
DetectionsEnded ==
    Len(det_log) - (IF det.pc \in {"answer", "answered"} THEN 1 ELSE 0)
DetectionsLaunched ==
    det_waiting + (IF det.pc = "idle" THEN 0 ELSE 1) + DetectionsEnded
LoopsAlive ==
    (IF periodic_pc \in {"sleep", "cancelling"} THEN 1 ELSE 0)
        + Cardinality({k \in 1..Len(old_loops) : old_loops[k] = "sleep"})

\* C35 as stated, for any sequence of start() and stop() calls: an event appends
\* at most one entry and launches at most one detection task, a blank one
\* nothing, and at most one periodic loop is alive.
C35_Original ==
    /\ Len(sentence_buffer) <= Cardinality(NonBlankEvents)
    /\ DetectionsLaunched <= Cardinality(NonBlankEvents)
    /\ LoopsAlive <= 1

\* what the code does: one entry and one detection task per registration of
\* the handler, that is per start() call made before the event was published,
\* and one loop per start() call until the loop finds _running false
C35_PerStart ==
    /\ Len(sentence_buffer) <= ai_calls.start * Cardinality(NonBlankEvents)
    /\ DetectionsLaunched = Len(sentence_buffer)
    /\ LoopsAlive <= ai_calls.start

(* --- claims about the engine started once on the bus --- *)

\* the publish call of sentence event id has returned after running
\* _on_sentence_end
SentenceReturned(id) ==
    \E p \in 1..Len(pubs) :
        /\ pubs[p].ev.id = id /\ pubs[p].ev.type = SENTENCE_END
        /\ pubs[p].state = "returned" /\ Len(pubs[p].tasks) > 0

\* C32: when the publish call of a sentence event has returned, the text is in
\* the buffer and every text of the buffer has had its detection task launched;
\* and the publish call returns whether or not the reasoning capability ever
\* answers (no fairness on the detection steps; a publish call that has
\* returned never waits again).
C32_Appended ==
    /\ \A id \in DOMAIN ev_text :
          SentenceReturned(id) =>
              \E k \in 1..Len(sentence_buffer) : sentence_buffer[k] = ev_text[id].text
    /\ DetectionsLaunched = Len(sentence_buffer)
C32_PublishReturns ==
    /\ []C32_Appended
    /\ SentenceAwaiting ~> ~SentenceAwaiting

\* a sentence publish has returned while the reasoning call of an earlier
\* detection run is pending and the task launched for it has not started
C32_Witness ==
    /\ det.pc = "llm"
    /\ det_waiting > 0
    /\ \E id \in DOMAIN ev_text :
          /\ SentenceReturned(id)
          /\ sentence_buffer[Len(sentence_buffer)] = ev_text[id].text
          /\ det.window # DetectionWindow(sentence_buffer)

\* C38: whenever a detection task is waiting for the lock or a run is inside
\* it, there comes a moment where no task waits and the lock is free: every
\* launched task has ended, whatever path it took and whatever was published
\* while the handlers of its QUESTION_DETECTED event ran.
C38_Terminates ==
    (det_waiting > 0 \/ det.pc # "idle") ~> (det_waiting = 0 /\ det.pc = "idle")

\* every task has ended and the lock is free, after a sentence event was
\* published while the handlers of a QUESTION_DETECTED event ran, its own
\* detection run included, and the runs took different paths
C38_Witness ==
    /\ det_waiting = 0
    /\ det.pc = "idle"
    /\ DetectionsEnded = Len(sentence_buffer)
    /\ Cardinality({det_log[k].outcome : k \in 1..Len(det_log)}) > 1
    /\ \E id \in DOMAIN ev_text :
          /\ ev_text[id].during = "answer"
          /\ \E k \in 1..Len(det_log) :
                /\ det_log[k].called
                /\ det_log[k].window[Len(det_log[k].window)] = ev_text[id].text

\* C39: the detection events come in pairs, a QUESTION_DETECTED and then an
\* ANSWER_GENERATED with the same question, answer and text, so the answers
\* are as many as the questions or one less; the answer is published when the
\* publish call of the question has returned, with every handler ended, and
\* the question of another run only after it; and the answer does follow.
C39_Paired ==
    /\ \A k \in 1..Len(ai_events) :
          IF k % 2 = 1
          THEN ai_events[k].type = "QUESTION_DETECTED"
          ELSE ai_events[k] = [ai_events[k - 1] EXCEPT !.type = "ANSWER_GENERATED"]
    /\ Len(ai_events) % 2 = 1 <=> det.pc = "answer"
C39_Order ==
    ai_events' # ai_events =>
        /\ Len(ai_events') = Len(ai_events) + 1
        /\ IF ai_events'[Len(ai_events')].type = "ANSWER_GENERATED"
           THEN \A p \in 1..Len(pubs) :
                    pubs[p].ev.type = "QUESTION_DETECTED" =>
                        /\ pubs[p].state = "returned"
                        /\ \A i \in 1..Len(pubs[p].tasks) :
                              pubs[p].tasks[i].st \in {"ok", "caught"}
           ELSE det.pc = "llm"
C39_AnswerFollows ==
    /\ []C39_Paired
    /\ [][C39_Order]_vars
    /\ (Len(ai_events) % 2 = 1) ~> (Len(ai_events) % 2 = 0)

\* the publish call of a second QUESTION_DETECTED event has returned with one
\* handler failed and the other ended after a suspension, and the answer is
\* about to be published
C39_Witness ==
    /\ det.pc = "answer"
    /\ Len(ai_events) >= 3
    /\ \E p \in 1..Len(pubs) :
          /\ pubs[p].ev.type = "QUESTION_DETECTED"
          /\ pubs[p].state = "returned"
          /\ \E i, j \in 1..Len(pubs[p].tasks) :
                pubs[p].tasks[i].st = "caught" /\ pubs[p].tasks[j].st = "ok"

(* --- claims about restarting the capture --- *)

\* the capture loops that are reading an open stream, and the step in which a
\* capture thread that is not the one of the last start() leaves its loop
LoopsReading ==
    {t \in 1..Len(threads) :
        /\ threads[t].pc = "reading"
        /\ \E x \in stream_open : x[1] = threads[t].rd}
OlderLoopExits ==
    \E t \in 1..Len(threads) :
        t # capture_thread /\ threads[t].pc # "done" /\ threads'[t].pc = "done"

\* C37 as stated, for any sequence of start() and stop() calls: at most one
\* capture loop reads the device at any time, and a loop that exits leaves
\* the running flag of a capture started after it as it is.
C37_OneLoop == Cardinality(LoopsReading) <= 1
C37_KeepsFlag == OlderLoopExits => audio_running' = audio_running
C37_Original == []C37_OneLoop /\ [][C37_KeepsFlag]_vars

\* what the code does: the thread of an earlier start() that outlives its
\* stop() shares _running, _stream and _pa with the later one; it reads the
\* stream of the later capture, and its exit clears the flag
C37_SharedFlag ==
    [][OlderLoopExits => audio_running' = FALSE]_vars

(* --- claims about the handlers of a publish call --- *)

\* the invocations of a publish call: handler and registration, in list order
InvocationsOf(r) == [i \in 1..Len(r.tasks) |-> <<r.tasks[i].h, r.tasks[i].reg>>]
RegistrationsOf(list) == [i \in 1..Len(list) |-> <<list[i].h, list[i].reg>>]

\* the publish step of this transition, if it is one
Publishes == npublished' = npublished + 1

\* C40: the invocations of a publish call are the registrations that match
\* when the call starts, list order kept; no later step changes them, a
\* subscribe or unsubscribe call changes no publish call in progress, and the
\* next publish uses the registrations as they are then; the event is in the
\* history from the publish step on, when no handler has run yet, also when
\* there is no handler.
C40_InHistory ==
    \A p \in 1..Len(pubs) :
        /\ \E n \in 1..Len(event_history) : event_history[n] = pubs[p].ev
        /\ InvocationsOf(pubs[p]) = RegistrationsOf(pubs[p].regKind \o pubs[p].regGlobal)
C40_Step ==
    /\ Publishes =>
          LET r == pubs'[Len(pubs')]
          IN /\ InvocationsOf(r) = RegistrationsOf(MatchingHandlers(r.ev.type))
             /\ \A i \in 1..Len(r.tasks) : r.tasks[i].st = "pending"
             /\ event_history'[Len(event_history')] = r.ev
    /\ \A p \in 1..Len(pubs), q \in 1..Len(pubs') :
          pubs[p].ev.id = pubs'[q].ev.id =>
              InvocationsOf(pubs'[q]) = InvocationsOf(pubs[p])
    /\ (handlers' # handlers \/ global_handlers' # global_handlers) => pubs' = pubs
C40_FixedAtPublish == []C40_InHistory /\ [][C40_Step]_vars

\* two publish calls of one kind: the earlier one is still waiting for a
\* handler that is suspended, and since it started that handler was
\* unsubscribed and another subscribed; the later one has the new handler only
C40_Witness ==
    \E p, q \in 1..Len(pubs) :
        /\ pubs[p].ev.id < pubs[q].ev.id
        /\ pubs[p].ev.type = pubs[q].ev.type
        /\ pubs[p].state = "awaiting"
        /\ \E i \in 1..Len(pubs[p].tasks) :
              /\ pubs[p].tasks[i].st = "suspended"
              /\ \A j \in 1..Len(pubs[q].tasks) : pubs[q].tasks[j].reg # pubs[p].tasks[i].reg
        /\ \E j \in 1..Len(pubs[q].tasks) :
              \A i \in 1..Len(pubs[p].tasks) : pubs[q].tasks[j].reg # pubs[p].tasks[i].reg

====
